---- MODULE Spec2Model ----
(***************************************************************************)
(* Model of the reminder-system MCP layer: the JSON wire format, the MCP   *)
(* protocol server (mcp-server-protocol.ts), the tool endpoints of the     *)
(* tool server (mcp_server.ts) and the MCP client (mcp-protocol.ts).       *)
(***************************************************************************)
EXTENDS Integers, Sequences, FiniteSets, TLC

(***************************************************************************)
(* JavaScript values.  A string is a sequence of symbols: a symbol is one  *)
(* JSON metacharacter (quote, backslash, brace, bracket, colon, comma,     *)
(* digit, minus) or a run of plain characters that JSON copies verbatim.   *)
(***************************************************************************)
Str(s) == [t |-> "str", s |-> s]
Num(n) == [t |-> "num", n |-> n]
Bool(b) == [t |-> "bool", b |-> b]
Null == [t |-> "null"]
Undef == [t |-> "undef"]
Arr(a) == [t |-> "arr", a |-> a]
Obj(o) == [t |-> "obj", o |-> o]
KV(k, v) == [k |-> <<k>>, v |-> v]

QUOTE == "\""
BSLASH == "\\"
DigitChars == <<"0", "1", "2", "3", "4", "5", "6", "7", "8", "9">>

\* JavaScript truthiness (ToBoolean)
Truthy(v) ==
    CASE v.t = "undef" -> FALSE
      [] v.t = "null" -> FALSE
      [] v.t = "bool" -> v.b
      [] v.t = "num" -> v.n # 0
      [] v.t = "str" -> v.s # <<>>
      [] OTHER -> TRUE

HasKey(v, k) == v.t = "obj" /\ \E j \in 1..Len(v.o) : v.o[j].k = <<k>>

\* property read v.k on a value that is not null/undefined (undefined when absent)
Get(v, k) ==
    IF HasKey(v, k)
    THEN v.o[CHOOSE j \in 1..Len(v.o) :
                 /\ v.o[j].k = <<k>>
                 /\ \A h \in (j+1)..Len(v.o) : v.o[h].k # <<k>>].v
    ELSE Undef

\* reading a property of null or undefined throws a TypeError
Derefable(v) == v.t \notin {"undef", "null"}

RECURSIVE NatToks(_)
NatToks(n) == IF n < 10 THEN <<DigitChars[n + 1]>>
              ELSE NatToks(n \div 10) \o <<DigitChars[(n % 10) + 1]>>

NumToks(n) == IF n < 0 THEN <<"-">> \o NatToks(0 - n) ELSE NatToks(n)

\* JSON.stringify's escaping of a string's symbols: quote and backslash get a
\* backslash in front (halving keeps the evaluation depth logarithmic)
RECURSIVE Escape(_)
Escape(s) ==
    IF s = <<>> THEN <<>>
    ELSE IF Len(s) = 1
    THEN (IF s[1] \in {QUOTE, BSLASH} THEN <<BSLASH, s[1]>> ELSE s)
    ELSE Escape(SubSeq(s, 1, Len(s) \div 2))
         \o Escape(SubSeq(s, (Len(s) \div 2) + 1, Len(s)))

Quoted(s) == <<QUOTE>> \o Escape(s) \o <<QUOTE>>

RECURSIVE Serialize(_)
RECURSIVE SerializeElems(_, _)
RECURSIVE SerializeMembers(_, _)

\* array elements: undefined is written as null
SerializeElems(a, first) ==
    IF a = <<>> THEN <<>>
    ELSE (IF first THEN <<>> ELSE <<",">>)
         \o (IF Head(a).t = "undef" THEN <<"null">> ELSE Serialize(Head(a)))
         \o SerializeElems(Tail(a), FALSE)

\* object members: a member whose value is undefined is dropped
SerializeMembers(o, first) ==
    IF o = <<>> THEN <<>>
    ELSE IF Head(o).v.t = "undef" THEN SerializeMembers(Tail(o), first)
    ELSE (IF first THEN <<>> ELSE <<",">>)
         \o Quoted(Head(o).k) \o <<":">> \o Serialize(Head(o).v)
         \o SerializeMembers(Tail(o), FALSE)

Serialize(v) ==
    CASE v.t = "str" -> Quoted(v.s)
      [] v.t = "num" -> NumToks(v.n)
      [] v.t = "bool" -> <<IF v.b THEN "true" ELSE "false">>
      [] v.t = "null" -> <<"null">>
      [] v.t = "arr" -> <<"[">> \o SerializeElems(v.a, TRUE) \o <<"]">>
      [] v.t = "obj" -> <<"{">> \o SerializeMembers(v.o, TRUE) \o <<"}">>

\* JSON.stringify(v): a string value, or undefined for undefined
JSONstringify(v) == IF v.t = "undef" THEN Undef ELSE Str(Serialize(v))

RECURSIVE ParseValue(_, _)
RECURSIVE ParseDigits(_, _, _)
RECURSIVE ParseElems(_, _, _)
RECURSIVE ParseMembers(_, _, _)

\* inside the string literal whose first symbol is toks[i]: the symbol at p is
\* escaped when an odd run of backslashes ends right before it
Escaped(toks, i, p) ==
    LET run == CHOOSE k \in 0..(p - i) :
                   /\ \A r \in 1..k : toks[p - r] = BSLASH
                   /\ (k = p - i \/ toks[p - k - 1] # BSLASH)
    IN run % 2 = 1

\* the symbols of toks[lo..hi] without the backslashes that escape
RECURSIVE Unescape(_, _, _, _)
Unescape(toks, i, lo, hi) ==
    IF lo > hi THEN <<>>
    ELSE IF lo = hi
    THEN (IF toks[lo] = BSLASH /\ ~Escaped(toks, i, lo) THEN <<>> ELSE <<toks[lo]>>)
    ELSE Unescape(toks, i, lo, (lo + hi) \div 2)
         \o Unescape(toks, i, ((lo + hi) \div 2) + 1, hi)

\* the string literal whose first symbol is toks[i], up to its closing quote
ParseChars(toks, i, acc) ==
    LET end == CHOOSE j \in i..Len(toks) :
                   /\ toks[j] = QUOTE /\ ~Escaped(toks, i, j)
                   /\ \A h \in i..(j - 1) : toks[h] # QUOTE \/ Escaped(toks, i, h)
    IN [s |-> acc \o Unescape(toks, i, i, end - 1), i |-> end + 1]

IsDigit(c) == \E d \in 1..10 : DigitChars[d] = c

ParseDigits(toks, i, acc) ==
    IF i <= Len(toks) /\ IsDigit(toks[i])
    THEN ParseDigits(toks, i + 1,
                     acc * 10 + (CHOOSE d \in 0..9 : DigitChars[d + 1] = toks[i]))
    ELSE [n |-> acc, i |-> i]

ParseElems(toks, i, acc) ==
    LET e == ParseValue(toks, i)
        acc2 == Append(acc, e.v)
    IN IF toks[e.i] = "," THEN ParseElems(toks, e.i + 1, acc2)
       ELSE [v |-> Arr(acc2), i |-> e.i + 1]

ParseMembers(toks, i, acc) ==
    LET key == ParseChars(toks, i + 1, <<>>)
        e == ParseValue(toks, key.i + 1)
        acc2 == Append(acc, [k |-> key.s, v |-> e.v])
    IN IF toks[e.i] = "," THEN ParseMembers(toks, e.i + 1, acc2)
       ELSE [v |-> Obj(acc2), i |-> e.i + 1]

ParseValue(toks, i) ==
    LET c == toks[i] IN
    CASE c = QUOTE -> LET r == ParseChars(toks, i + 1, <<>>)
                      IN [v |-> Str(r.s), i |-> r.i]
      [] c = "{" -> IF toks[i + 1] = "}" THEN [v |-> Obj(<<>>), i |-> i + 2]
                    ELSE ParseMembers(toks, i + 1, <<>>)
      [] c = "[" -> IF toks[i + 1] = "]" THEN [v |-> Arr(<<>>), i |-> i + 2]
                    ELSE ParseElems(toks, i + 1, <<>>)
      [] c = "true" -> [v |-> Bool(TRUE), i |-> i + 1]
      [] c = "false" -> [v |-> Bool(FALSE), i |-> i + 1]
      [] c = "null" -> [v |-> Null, i |-> i + 1]
      [] c = "-" -> LET r == ParseDigits(toks, i + 1, 0)
                    IN [v |-> Num(0 - r.n), i |-> r.i]
      [] OTHER -> LET r == ParseDigits(toks, i, 0)
                  IN [v |-> Num(r.n), i |-> r.i]

\* JSON.parse(text)
JSONparse(toks) == ParseValue(toks, 1).v

\* What a value becomes when it is sent as JSON text and parsed by its receiver
\* (res.json and response.json(), axios and body-parser): members whose value is
\* undefined are gone, undefined array elements are null, the rest is kept.
\* WireAsText is the same conversion done on the text.
RECURSIVE Wire(_)
Wire(v) ==
    CASE v.t = "arr" ->
           Arr([j \in 1..Len(v.a) |->
                  IF v.a[j].t = "undef" THEN Null ELSE Wire(v.a[j])])
      [] v.t = "obj" ->
           LET kept == SelectSeq(v.o, LAMBDA m : m.v.t # "undef")
           IN Obj([j \in 1..Len(kept) |-> [k |-> kept[j].k, v |-> Wire(kept[j].v)]])
      [] OTHER -> v

WireAsText(v) == JSONparse(Serialize(v))

\* a body that is not JSON text (an HTML error page)
HtmlPage == [t |-> "html"]


(***************************************************************************)
(* State.                                                                  *)
(***************************************************************************)
VARIABLES
    clock,           \* Date.now(), in milliseconds
    tools,           \* MCPServerProtocol.tools (the registry)
    activeSessions,  \* MCPServerProtocol.activeSessions: the Map's entries, in
                     \* insertion order
    remindersDb,     \* mcp_server.ts remindersDb
    http,            \* the HTTP requests the server has received, in arrival order
    responses,       \* the HTTP responses the server has emitted, in emission order
    serverUrl,       \* MCPClient.serverUrl
    sessionId,       \* MCPClient.sessionId
    capabilities,    \* MCPClient.capabilities
    fetches,         \* number of fetch() calls made by the MCPClient
    calls,           \* the invocations of MCPClient methods, in start order
    objects,         \* agent-executor.ts: every ExecutionStep object created so far
    steps,           \* ExecutionTracker.steps: references into objects
    stepCounter,     \* ExecutionTracker.stepCounter
    snapshots,       \* the arrays getSteps() has handed out
    runs,            \* the executions of executeAgentQuery, in start order
    invocations,     \* the tool invocations of the agent, in start order
    outbox           \* mcp_client_http.ts: the mails transporter.sendMail has sent

serverVars == <<tools, activeSessions, remindersDb, http, responses>>
clientVars == <<serverUrl, sessionId, capabilities, fetches, calls>>
agentVars == <<objects, steps, stepCounter, snapshots, runs, invocations>>
vars == <<clock, serverVars, clientVars, agentVars, outbox>>

\* bounds of the model
MaxRaw == 2
MaxCalls == 1
MaxStubCalls == 2
MaxSessionRaw == 3
MaxInFlight == 2
MaxSteps == 2
MaxSnapshots == 1
MaxRuns == 2
MaxToolCalls == 1
MaxToolRaw == 2
MaxCliCalls == 2
MaxMailRaw == 2
InitialNow == 10
Instants == InitialNow..(InitialNow + 1)

(***************************************************************************)
(* mcp-server-protocol.ts: the registry.                                   *)
(***************************************************************************)
Prop(name, type) == KV(name, Obj(<<KV("type", Str(<<type>>))>>))

ToolDescriptor(name, description, properties, required) ==
    Obj(<<KV("name", Str(<<name>>)),
          KV("description", Str(<<description>>)),
          KV("inputSchema", Obj(<<KV("type", Str(<<"object">>)),
                                  KV("properties", Obj(properties)),
                                  KV("required", Arr(required))>>))>>)

\* the bug of registering a tool a second time
RegisteredToolsTwice ==
    Arr(<<ToolDescriptor("add_reminder", "Adds a new reminder",
                         <<Prop("time", "string"), Prop("task", "string")>>,
                         <<Str(<<"time">>), Str(<<"task">>)>>),
          ToolDescriptor("send_email_reminder", "Sends an email reminder",
                         <<Prop("time", "string"), Prop("task", "string"),
                           Prop("email", "string"), Prop("eventDuration", "number"),
                           Prop("eventLocation", "string")>>,
                         <<Str(<<"time">>), Str(<<"task">>), Str(<<"email">>)>>),
          ToolDescriptor("list_reminders", "Lists all current reminders",
                         <<>>, <<>>),
          ToolDescriptor("list_reminders", "Lists all current reminders",
                         <<>>, <<>>)>>)

\* the bug of registering a tool the tools/call switch has no case for
RegisteredToolsWithExtra ==
    Arr(<<ToolDescriptor("add_reminder", "Adds a new reminder",
                         <<Prop("time", "string"), Prop("task", "string")>>,
                         <<Str(<<"time">>), Str(<<"task">>)>>),
          ToolDescriptor("send_email_reminder", "Sends an email reminder",
                         <<Prop("time", "string"), Prop("task", "string"),
                           Prop("email", "string"), Prop("eventDuration", "number"),
                           Prop("eventLocation", "string")>>,
                         <<Str(<<"time">>), Str(<<"task">>), Str(<<"email">>)>>),
          ToolDescriptor("list_reminders", "Lists all current reminders",
                         <<>>, <<>>),
          ToolDescriptor("delete_reminder", "Deletes a reminder",
                         <<Prop("id", "string")>>, <<Str(<<"id">>)>>)>>)

\* the value registerTools() assigns to this.tools
RegisteredTools ==
    Arr(<<ToolDescriptor("add_reminder", "Adds a new reminder",
                         <<Prop("time", "string"), Prop("task", "string")>>,
                         <<Str(<<"time">>), Str(<<"task">>)>>),
          ToolDescriptor("send_email_reminder", "Sends an email reminder",
                         <<Prop("time", "string"), Prop("task", "string"),
                           Prop("email", "string"), Prop("eventDuration", "number"),
                           Prop("eventLocation", "string")>>,
                         <<Str(<<"time">>), Str(<<"task">>), Str(<<"email">>)>>),
          ToolDescriptor("list_reminders", "Lists all current reminders",
                         <<>>, <<>>)>>)

JsonRpc == KV("jsonrpc", Str(<<"2.0">>))
ProtocolVersion == Str(<<"2024-11-05">>)

\* String(v) as a template literal `${v}` computes it
ToStr(v) ==
    CASE v.t = "str" -> v.s
      [] v.t = "num" -> NumToks(v.n)
      [] v.t = "bool" -> <<IF v.b THEN "true" ELSE "false">>
      [] v.t = "null" -> <<"null">>
      [] v.t = "undef" -> <<"undefined">>
      [] OTHER -> <<"[object Object]">>

\* new Date().toISOString()
ISOString(now) == Str(<<"T">> \o NatToks(now) \o <<"Z">>)

(***************************************************************************)
(* HTTP plumbing: express res.json / res.status().json, body-parser,       *)
(* axios.                                                                  *)
(***************************************************************************)
\* body: the reply's JSON text as its receiver parses it
HttpReply(status, value) == [status |-> status, body |-> Wire(value)]

StatusOk(status) == status >= 200 /\ status <= 299

\* a request as the server holds it: body is req.body as body-parser leaves it,
\* st the position of the request's handler
NewHttp(ep, sid, bodyValue, src) ==
    [ep |-> ep, sid |-> sid, body |-> Wire(bodyValue), src |-> src,
     st |-> "sent", tool |-> "none", args |-> Undef, outcome |-> "none",
     result |-> Undef]

Emit(n, by, reply) ==
    Append(responses, [req |-> n, by |-> by, status |-> reply.status,
                       body |-> reply.body])

ResponsesTo(n) == {j \in 1..Len(responses) : responses[j].req = n}


(***************************************************************************)
(* mcp_client_http.ts: the email service's /send-reminder endpoint, as the *)
(* tool server sees it (parsedTime and timeAnalysis, which calendar-utils  *)
(* computes, are left out of the reply).  smtpOk: transporter.sendMail     *)
(* succeeded.                                                              *)
(***************************************************************************)
SendReminderService(body, smtpOk) ==
    LET to == Get(body, "to")
        reminderText == Get(body, "reminderText")
        reminderTime == Get(body, "reminderTime")
        includeCalendarInvite ==
            IF Get(body, "includeCalendarInvite").t = "undef" THEN Bool(TRUE)
            ELSE Get(body, "includeCalendarInvite")
    IN IF ~Truthy(to) \/ ~Truthy(reminderText) \/ ~Truthy(reminderTime)
       THEN HttpReply(400, Obj(<<KV("error", Str(<<"Missing required fields">>))>>))
       ELSE IF ~smtpOk
       THEN HttpReply(500, Obj(<<KV("error", Str(<<"Failed to send reminder email">>)),
                                 KV("details", Str(<<"SMTP error">>))>>))
       ELSE HttpReply(200,
                Obj(<<KV("success", Bool(TRUE)),
                      KV("messageId", Str(<<"msg">>)),
                      KV("message", Str(<<"Reminder email sent successfully to ">>
                                        \o ToStr(to)
                                        \o (IF Truthy(includeCalendarInvite)
                                            THEN <<" with calendar invite">> ELSE <<>>))),
                      KV("reminder", Obj(<<KV("text", reminderText),
                                           KV("time", reminderTime),
                                           KV("recipient", to),
                                           KV("calendarAttached", includeCalendarInvite)>>))>>))

(***************************************************************************)
(* axios: the request data travels as JSON and body-parser parses it; the  *)
(* reply's data is the parsed body; a status outside 2xx rejects.          *)
(***************************************************************************)
AxiosBody(data) == Wire(data)

AxiosResult(reply) ==
    [ok |-> StatusOk(reply.status),
     data |-> reply.body,
     message |-> <<"Request failed with status code ">> \o NatToks(reply.status)]

(***************************************************************************)
(* mcp_server.ts: the tool endpoints.  Each yields the HTTP reply and the  *)
(* reminder store afterwards.                                              *)
(***************************************************************************)
ListRemindersEndpoint(db) ==
    [reply |-> HttpReply(200, Arr(db)), db |-> db]

\* the bug of unshift for push: the new reminder goes first
AddReminderEndpointUnshift(body, db, now, rnd) ==
    LET time == Get(body, "time")
        task == Get(body, "task")
        newReminder ==
            Obj(<<KV("id", Str(<<"reminder_">> \o NatToks(now) \o <<"_", rnd>>)),
                  KV("time", time),
                  KV("task", task),
                  KV("email", Undef),
                  KV("createdAt", ISOString(now))>>)
    IN IF ~Truthy(time) \/ ~Truthy(task)
       THEN [reply |-> HttpReply(400,
                 Obj(<<KV("error", Str(<<"Missing 'time' or 'task' in request body.">>))>>)),
             db |-> db]
       ELSE [reply |-> HttpReply(200,
                 Obj(<<KV("message", Str(<<"Reminder added: ">> \o ToStr(task)
                                         \o <<" at ">> \o ToStr(time))),
                       KV("reminder", newReminder)>>)),
             db |-> <<newReminder>> \o db]

AddReminderEndpoint(body, db, now, rnd) ==
    LET time == Get(body, "time")
        task == Get(body, "task")
        newReminder ==
            Obj(<<KV("id", Str(<<"reminder_">> \o NatToks(now) \o <<"_", rnd>>)),
                  KV("time", time),
                  KV("task", task),
                  KV("email", Undef),
                  KV("createdAt", ISOString(now))>>)
    IN IF ~Truthy(time) \/ ~Truthy(task)
       THEN [reply |-> HttpReply(400,
                 Obj(<<KV("error", Str(<<"Missing 'time' or 'task' in request body.">>))>>)),
             db |-> db]
       ELSE [reply |-> HttpReply(200,
                 Obj(<<KV("message", Str(<<"Reminder added: ">> \o ToStr(task)
                                         \o <<" at ">> \o ToStr(time))),
                       KV("reminder", newReminder)>>)),
             db |-> Append(db, newReminder)]

\* the bug of storing the reminder before the email service has answered
SendEmailReminderEndpointStoringFirst(body, db, now, rnd, smtpOk) ==
    LET time == Get(body, "time")
        task == Get(body, "task")
        email == Get(body, "email")
        senderName == Get(body, "senderName")
        eventDuration == Get(body, "eventDuration")
        eventLocation == Get(body, "eventLocation")
        emailResponse ==
            AxiosResult(SendReminderService(
                AxiosBody(Obj(<<KV("to", email),
                                KV("reminderText", task),
                                KV("reminderTime", time),
                                KV("senderName", senderName),
                                KV("includeCalendarInvite", Bool(TRUE)),
                                KV("eventDuration", eventDuration),
                                KV("eventLocation", eventLocation)>>)),
                smtpOk))
        newReminder ==
            Obj(<<KV("id", Str(<<"email_reminder_">> \o NatToks(now) \o <<"_", rnd>>)),
                  KV("time", time),
                  KV("task", task),
                  KV("email", email),
                  KV("createdAt", ISOString(now))>>)
    IN IF ~Truthy(time) \/ ~Truthy(task) \/ ~Truthy(email)
       THEN [reply |-> HttpReply(400,
                 Obj(<<KV("error", Str(<<"Missing required fields: 'time', 'task', or 'email'">>))>>)),
             db |-> db]
       ELSE IF ~emailResponse.ok
       THEN [reply |-> HttpReply(500,
                 Obj(<<KV("error", Str(<<"Failed to send email reminder">>)),
                       KV("details", Str(emailResponse.message)),
                       KV("suggestion", Str(<<"Check if email server is running and configuration is correct">>))>>)),
             db |-> Append(db, newReminder)]
       ELSE [reply |-> HttpReply(200,
                 Obj(<<KV("message", Str(<<"Email reminder with calendar invite sent to ">>
                                         \o ToStr(email) \o <<": ">> \o ToStr(task)
                                         \o <<" at ">> \o ToStr(time))),
                       KV("emailResponse", emailResponse.data),
                       KV("reminder", newReminder),
                       KV("calendarIncluded", Bool(TRUE)),
                       KV("eventDetails",
                          Obj(<<KV("duration", IF Truthy(eventDuration) THEN eventDuration
                                               ELSE Str(<<"auto-suggested">>)),
                                KV("location", IF Truthy(eventLocation) THEN eventLocation
                                               ELSE Str(<<"not specified">>))>>))>>)),
             db |-> Append(db, newReminder)]

SendEmailReminderEndpoint(body, db, now, rnd, smtpOk) ==
    LET time == Get(body, "time")
        task == Get(body, "task")
        email == Get(body, "email")
        senderName == Get(body, "senderName")
        eventDuration == Get(body, "eventDuration")
        eventLocation == Get(body, "eventLocation")
        emailResponse ==
            AxiosResult(SendReminderService(
                AxiosBody(Obj(<<KV("to", email),
                                KV("reminderText", task),
                                KV("reminderTime", time),
                                KV("senderName", senderName),
                                KV("includeCalendarInvite", Bool(TRUE)),
                                KV("eventDuration", eventDuration),
                                KV("eventLocation", eventLocation)>>)),
                smtpOk))
        newReminder ==
            Obj(<<KV("id", Str(<<"email_reminder_">> \o NatToks(now) \o <<"_", rnd>>)),
                  KV("time", time),
                  KV("task", task),
                  KV("email", email),
                  KV("createdAt", ISOString(now))>>)
    IN IF ~Truthy(time) \/ ~Truthy(task) \/ ~Truthy(email)
       THEN [reply |-> HttpReply(400,
                 Obj(<<KV("error", Str(<<"Missing required fields: 'time', 'task', or 'email'">>))>>)),
             db |-> db]
       ELSE IF ~emailResponse.ok
       THEN [reply |-> HttpReply(500,
                 Obj(<<KV("error", Str(<<"Failed to send email reminder">>)),
                       KV("details", Str(emailResponse.message)),
                       KV("suggestion", Str(<<"Check if email server is running and configuration is correct">>))>>)),
             db |-> db]
       ELSE [reply |-> HttpReply(200,
                 Obj(<<KV("message", Str(<<"Email reminder with calendar invite sent to ">>
                                         \o ToStr(email) \o <<": ">> \o ToStr(task)
                                         \o <<" at ">> \o ToStr(time))),
                       KV("emailResponse", emailResponse.data),
                       KV("reminder", newReminder),
                       KV("calendarIncluded", Bool(TRUE)),
                       KV("eventDetails",
                          Obj(<<KV("duration", IF Truthy(eventDuration) THEN eventDuration
                                               ELSE Str(<<"auto-suggested">>)),
                                KV("location", IF Truthy(eventLocation) THEN eventLocation
                                               ELSE Str(<<"not specified">>))>>))>>)),
             db |-> Append(db, newReminder)]

(***************************************************************************)
(* mcp-server-protocol.ts: the tool implementations delegate to the tool   *)
(* endpoints over HTTP.  Each yields the axios outcome (ok: resolved with  *)
(* data; otherwise thrown with message) and the store afterwards.          *)
(***************************************************************************)
\* the bug of posting the tools/call params instead of the arguments
ExecuteAddReminderPostingParams(args, db, now, rnd) ==
    LET down == AddReminderEndpoint(
                    AxiosBody(Obj(<<KV("name", Str(<<"add_reminder">>)),
                                    KV("arguments", args)>>)), db, now, rnd)
    IN [res |-> AxiosResult(down.reply), db |-> down.db]

ExecuteAddReminder(args, db, now, rnd) ==
    LET down == AddReminderEndpoint(AxiosBody(args), db, now, rnd)
    IN [res |-> AxiosResult(down.reply), db |-> down.db]

ExecuteSendEmailReminder(args, db, now, rnd, smtpOk) ==
    LET down == SendEmailReminderEndpoint(AxiosBody(args), db, now, rnd, smtpOk)
    IN [res |-> AxiosResult(down.reply), db |-> down.db]

ExecuteListReminders(args, db) ==
    LET down == ListRemindersEndpoint(db)
    IN [res |-> AxiosResult(down.reply), db |-> down.db]

(***************************************************************************)
(* mcp-server-protocol.ts: the envelopes the MCP endpoints build.          *)
(***************************************************************************)
InternalErrorCode == -32603

Capabilities(toolList) ==
    Obj(<<KV("tools", toolList),
          KV("version", ProtocolVersion),
          KV("features", Obj(<<KV("streaming", Bool(FALSE)),
                               KV("cancellation", Bool(TRUE)),
                               KV("progress", Bool(TRUE))>>))>>)

\* the bug of answering with the id the MCPClient happens to use for initialize
InitializeResponseFixedId(mcpRequest, toolList) ==
    Obj(<<JsonRpc, KV("id", Num(1)), KV("result", Capabilities(toolList))>>)

InitializeResponse(mcpRequest, toolList) ==
    Obj(<<JsonRpc, KV("id", Get(mcpRequest, "id")),
          KV("result", Capabilities(toolList))>>)

ToolsListResponse(mcpRequest, toolList) ==
    Obj(<<JsonRpc, KV("id", Get(mcpRequest, "id")),
          KV("result", Obj(<<KV("tools", toolList)>>))>>)

\* the bug of writing String(result) where JSON.stringify(result) is meant
ToolsCallSuccessAsString(mcpRequest, result) ==
    Obj(<<JsonRpc, KV("id", Get(mcpRequest, "id")),
          KV("result",
             Obj(<<KV("content",
                      Arr(<<Obj(<<KV("type", Str(<<"text">>)),
                                  KV("text", Str(ToStr(result)))>>)>>))>>))>>)

ToolsCallSuccess(mcpRequest, result) ==
    Obj(<<JsonRpc, KV("id", Get(mcpRequest, "id")),
          KV("result",
             Obj(<<KV("content",
                      Arr(<<Obj(<<KV("type", Str(<<"text">>)),
                                  KV("text", JSONstringify(result))>>)>>))>>))>>)

\* the bug of reporting a tool failure as invalid params (-32602)
ToolsCallErrorInvalidParams(mcpRequest, message) ==
    Obj(<<JsonRpc, KV("id", Get(mcpRequest, "id")),
          KV("error", Obj(<<KV("code", Num(-32602)),
                            KV("message", Str(message))>>))>>)

\* the bug of an error envelope that keeps a result member
ToolsCallErrorWithResult(mcpRequest, message) ==
    Obj(<<JsonRpc, KV("id", Get(mcpRequest, "id")),
          KV("result", Obj(<<KV("content", Arr(<<>>))>>)),
          KV("error", Obj(<<KV("code", Num(InternalErrorCode)),
                            KV("message", Str(message))>>))>>)

ToolsCallError(mcpRequest, message) ==
    Obj(<<JsonRpc, KV("id", Get(mcpRequest, "id")),
          KV("error", Obj(<<KV("code", Num(InternalErrorCode)),
                            KV("message", Str(message))>>))>>)

\* the bug of a switch without its default case: an unmatched name falls to
\* the last case
ToolsCallSwitchNoDefault(name) ==
    IF name = Str(<<"add_reminder">>) THEN "add_reminder"
    ELSE IF name = Str(<<"send_email_reminder">>) THEN "send_email_reminder"
    ELSE "list_reminders"

\* the switch of the tools/call handler: the case that matches name
ToolsCallSwitch(name) ==
    IF name = Str(<<"add_reminder">>) THEN "add_reminder"
    ELSE IF name = Str(<<"send_email_reminder">>) THEN "send_email_reminder"
    ELSE IF name = Str(<<"list_reminders">>) THEN "list_reminders"
    ELSE "default"

\* What express does with an exception that leaves an async handler depends on
\* the express build: express 4 never learns of the rejected promise and the
\* request gets no response; express 5 passes it to the default error handler,
\* which answers 500 with an HTML page.
FrameworkReply == [status |-> 500, body |-> HtmlPage]

(***************************************************************************)
(* The server's steps.                                                     *)
(***************************************************************************)
SetSt(n, st) == [http EXCEPT ![n].st = st]

\* Map.prototype.set: a present key keeps its place, a new key goes last
MapHas(m, key) == \E j \in 1..Len(m) : m[j].k = key

\* the bug of sessions kept in a list: every initialize adds an entry
MapSetAppending(m, key, value) == Append(m, [k |-> key, v |-> value])

MapSet(m, key, value) ==
    IF MapHas(m, key)
    THEN [j \in 1..Len(m) |-> IF m[j].k = key THEN [k |-> key, v |-> value] ELSE m[j]]
    ELSE Append(m, [k |-> key, v |-> value])

\* the bug of an initialize that registers the tools again, pushing them onto
\* the registry
ServeInitializeRegistering(n) ==
    /\ http[n].ep = "/mcp/initialize" /\ http[n].st = "sent"
    /\ LET mcpRequest == http[n].body
           params == Get(mcpRequest, "params")
           info == [clientInfo |-> IF Derefable(params) THEN Get(params, "clientInfo")
                                   ELSE Undef,
                    connectedAt |-> ISOString(clock)]
       IN /\ activeSessions' = MapSet(activeSessions, http[n].sid, info)
          /\ tools' = Arr(tools.a \o tools.a)
          /\ responses' = Emit(n, "handler",
                               HttpReply(200, InitializeResponse(mcpRequest, tools')))
    /\ http' = SetSt(n, "done")
    /\ UNCHANGED <<clock, remindersDb, clientVars, agentVars, outbox>>

\* POST /mcp/initialize
ServeInitialize(n) ==
    /\ http[n].ep = "/mcp/initialize" /\ http[n].st = "sent"
    /\ LET mcpRequest == http[n].body
           params == Get(mcpRequest, "params")
           info == [clientInfo |-> IF Derefable(params) THEN Get(params, "clientInfo")
                                   ELSE Undef,
                    connectedAt |-> ISOString(clock)]
       IN /\ activeSessions' = MapSet(activeSessions, http[n].sid, info)
          /\ responses' = Emit(n, "handler",
                               HttpReply(200, InitializeResponse(mcpRequest, tools)))
    /\ http' = SetSt(n, "done")
    /\ UNCHANGED <<clock, tools, remindersDb, clientVars, agentVars, outbox>>

\* the bug of a tools/list that refuses a session that has not sent initialize
ServeToolsListOfSession(n) ==
    /\ http[n].ep = "/mcp/tools/list" /\ http[n].st = "sent"
    /\ responses' = Emit(n, "handler",
           IF MapHas(activeSessions, http[n].sid)
           THEN HttpReply(200, ToolsListResponse(http[n].body, tools))
           ELSE HttpReply(400, ToolsCallError(http[n].body, <<"Session not initialized">>)))
    /\ http' = SetSt(n, "done")
    /\ UNCHANGED <<clock, tools, activeSessions, remindersDb, clientVars, agentVars, outbox>>

\* POST /mcp/tools/list
ServeToolsList(n) ==
    /\ http[n].ep = "/mcp/tools/list" /\ http[n].st = "sent"
    /\ responses' = Emit(n, "handler",
                         HttpReply(200, ToolsListResponse(http[n].body, tools)))
    /\ http' = SetSt(n, "done")
    /\ UNCHANGED <<clock, tools, activeSessions, remindersDb, clientVars, agentVars, outbox>>

\* GET /mcp/sessions
SessionsReport(m) ==
    Obj(<<KV("activeSessions", Num(Len(m))),
          KV("sessions",
             Arr([j \in 1..Len(m) |->
                    Obj(<<KV("sessionId", Str(m[j].k)),
                          KV("clientInfo", m[j].v.clientInfo),
                          KV("connectedAt", m[j].v.connectedAt)>>)]))>>)

ServeSessions(n) ==
    /\ http[n].ep = "/mcp/sessions" /\ http[n].st = "sent"
    /\ responses' = Emit(n, "plain", HttpReply(200, SessionsReport(activeSessions)))
    /\ http' = SetSt(n, "done")
    /\ UNCHANGED <<clock, tools, activeSessions, remindersDb, clientVars, agentVars, outbox>>

\* the bug of a missing await: the success envelope is sent while the tool
\* implementation is still running
ToolsCallDispatchNotAwaiting(n, frameworkAnswers) ==
    /\ http[n].ep = "/mcp/tools/call" /\ http[n].st = "sent"
    /\ Derefable(Get(http[n].body, "params")) => ~frameworkAnswers
    /\ LET mcpRequest == http[n].body
           params == Get(mcpRequest, "params")
           name == Get(params, "name")
           args == Get(params, "arguments")
           case == ToolsCallSwitch(name)
       IN IF ~Derefable(params)
          THEN \* TypeError outside the try block: it leaves the handler
               /\ http' = SetSt(n, "escaped")
               /\ responses' = IF frameworkAnswers
                               THEN Emit(n, "express", FrameworkReply)
                               ELSE responses
          ELSE IF case = "default"
          THEN /\ http' = SetSt(n, "done")
               /\ responses' = Emit(n, "handler",
                      HttpReply(500, ToolsCallError(mcpRequest,
                                        <<"Unknown tool: ">> \o ToStr(name))))
          ELSE /\ http' = [http EXCEPT ![n].st = "running", ![n].tool = case,
                                       ![n].args = args]
               /\ responses' = Emit(n, "handler",
                      HttpReply(200, ToolsCallSuccess(mcpRequest, Obj(<<>>))))
    /\ UNCHANGED <<clock, tools, activeSessions, remindersDb, clientVars, agentVars, outbox>>

\* POST /mcp/tools/call, up to the first await: the destructuring of params,
\* the switch, and the catch when the switch throws
ToolsCallDispatch(n, frameworkAnswers) ==
    /\ http[n].ep = "/mcp/tools/call" /\ http[n].st = "sent"
    /\ Derefable(Get(http[n].body, "params")) => ~frameworkAnswers
    /\ LET mcpRequest == http[n].body
           params == Get(mcpRequest, "params")
           name == Get(params, "name")
           args == Get(params, "arguments")
           case == ToolsCallSwitch(name)
       IN IF ~Derefable(params)
          THEN \* TypeError outside the try block: it leaves the handler
               /\ http' = SetSt(n, "escaped")
               /\ responses' = IF frameworkAnswers
                               THEN Emit(n, "express", FrameworkReply)
                               ELSE responses
          ELSE IF case = "default"
          THEN /\ http' = SetSt(n, "done")
               /\ responses' = Emit(n, "handler",
                      HttpReply(500, ToolsCallError(mcpRequest,
                                        <<"Unknown tool: ">> \o ToStr(name))))
          ELSE /\ http' = [http EXCEPT ![n].st = "running", ![n].tool = case,
                                       ![n].args = args]
               /\ responses' = responses
    /\ UNCHANGED <<clock, tools, activeSessions, remindersDb, clientVars, agentVars, outbox>>

\* POST /mcp/tools/call, from the tool implementation's completion on
ToolsCallComplete(n, rnd, smtpOk) ==
    /\ http[n].ep = "/mcp/tools/call" /\ http[n].st = "running"
    /\ http[n].tool = "send_email_reminder" \/ smtpOk
    /\ LET mcpRequest == http[n].body
           args == http[n].args
           ex == CASE http[n].tool = "add_reminder" ->
                          ExecuteAddReminder(args, remindersDb, clock, rnd)
                   [] http[n].tool = "send_email_reminder" ->
                          ExecuteSendEmailReminder(args, remindersDb, clock, rnd, smtpOk)
                   [] http[n].tool = "list_reminders" ->
                          ExecuteListReminders(args, remindersDb)
       IN /\ remindersDb' = ex.db
          /\ IF ex.res.ok
             THEN /\ http' = [http EXCEPT ![n].st = "done", ![n].outcome = "returned",
                                          ![n].result = ex.res.data]
                  /\ responses' = Emit(n, "handler",
                         HttpReply(200, ToolsCallSuccess(mcpRequest, ex.res.data)))
             ELSE /\ http' = [http EXCEPT ![n].st = "done", ![n].outcome = "threw"]
                  /\ responses' = Emit(n, "handler",
                         HttpReply(500, ToolsCallError(mcpRequest, ex.res.message)))
    /\ UNCHANGED <<clock, tools, activeSessions, clientVars, agentVars, outbox>>

(***************************************************************************)
(* Requests from senders other than the MCPClient (curl, another client).  *)
(***************************************************************************)
SessionIds == {<<"s1">>, <<"s2">>}
RandomSuffixes == {"k3x"}

PlainTime == Str(<<"9am">>)
QuotedTask == Str(<<"call ", QUOTE, "Bob", QUOTE, BSLASH>>)
SomeEmail == Str(<<"bob@example.com">>)

ToolsCallParams(name, args) ==
    Obj(<<KV("name", Str(<<name>>)), KV("arguments", args)>>)

\* the (tool name, arguments) pairs callers use
ToolInputs ==
    { <<"add_reminder", Obj(<<KV("time", PlainTime), KV("task", QuotedTask)>>)>>,
      <<"add_reminder", Obj(<<KV("time", PlainTime), KV("task", Undef)>>)>>,
      <<"send_email_reminder",
        Obj(<<KV("time", PlainTime), KV("task", QuotedTask), KV("email", SomeEmail),
              KV("eventDuration", Undef), KV("eventLocation", Undef)>>)>>,
      <<"list_reminders", Obj(<<>>)>>,
      <<"missing", Obj(<<>>)>> }

\* senders number their requests
RawId == 7 + Len(http)

RawEnvelope(method, params) ==
    Obj(<<JsonRpc, KV("id", Num(RawId)), KV("method", Str(<<method>>)),
          KV("params", params)>>)

RawRequests ==
    { [ep |-> "/mcp/initialize", sid |-> <<"s1">>,
        body |-> RawEnvelope("initialize",
                     Obj(<<KV("clientInfo", Obj(<<KV("name", Str(<<"curl">>))>>))>>))],
      [ep |-> "/mcp/initialize", sid |-> <<"s2">>,
        body |-> RawEnvelope("initialize", Undef)] }
    \cup { [ep |-> "/mcp/tools/list", sid |-> <<"s1">>,
            body |-> RawEnvelope("tools/list", Undef)] }
    \cup { [ep |-> "/mcp/sessions", sid |-> <<"s1">>, body |-> Undef] }
    \cup { [ep |-> "/mcp/tools/call", sid |-> <<"s1">>,
            body |-> RawEnvelope("tools/call", Undef)] }
    \cup { [ep |-> "/mcp/tools/call", sid |-> <<"s1">>,
            body |-> RawEnvelope("tools/call", ToolsCallParams(in[1], in[2]))] :
            in \in ToolInputs }

RawRequest(r) ==
    /\ Len(http) < MaxRaw
    /\ http' = Append(http, NewHttp(r.ep, r.sid, r.body, "raw"))
    /\ UNCHANGED <<clock, tools, activeSessions, remindersDb, responses,
                   clientVars, agentVars, outbox>>

\* requests of two senders, one of which sends initialize
SessionRequests ==
    { [ep |-> "/mcp/initialize", sid |-> <<"s1">>,
        body |-> RawEnvelope("initialize", Undef)] }
    \cup { [ep |-> "/mcp/tools/list", sid |-> sid,
            body |-> RawEnvelope("tools/list", Undef)] : sid \in SessionIds }
    \cup { [ep |-> "/mcp/tools/call", sid |-> sid,
            body |-> RawEnvelope("tools/call",
                                 ToolsCallParams("list_reminders", Obj(<<>>)))] :
            sid \in SessionIds }

SessionRequest(r) ==
    /\ Len(http) < MaxSessionRaw
    /\ http' = Append(http, NewHttp(r.ep, r.sid, r.body, "raw"))
    /\ UNCHANGED <<clock, tools, activeSessions, remindersDb, responses,
                   clientVars, agentVars, outbox>>

(***************************************************************************)
(* mcp_server.ts: the tool endpoints /tools/* as requests of their own.    *)
(* The handlers of list_reminders and add_reminder run to their end in one *)
(* step; the handler of send_email_reminder awaits the email service.      *)
(***************************************************************************)
\* the arguments senders give a tool, on either path
ToolArguments ==
    { <<"add_reminder", Obj(<<KV("time", PlainTime), KV("task", QuotedTask)>>)>>,
      <<"add_reminder", Obj(<<KV("time", PlainTime), KV("task", Str(<<>>))>>)>>,
      <<"send_email_reminder",
        Obj(<<KV("time", PlainTime), KV("task", QuotedTask), KV("email", SomeEmail)>>)>>,
      <<"list_reminders", Undef>> }

\* bodies that leave a required field out, sent straight to the endpoints
IncompleteBodies ==
    { <<"add_reminder", Obj(<<KV("task", QuotedTask)>>)>>,
      <<"send_email_reminder",
        Obj(<<KV("time", PlainTime), KV("task", QuotedTask)>>)>> }

ToolEndpoint(name) == "/tools/" \o name

ToolRequests ==
    { [ep |-> ToolEndpoint(in[1]), body |-> in[2]] :
        in \in ToolArguments \cup IncompleteBodies }
    \cup { [ep |-> "/mcp/tools/call",
            body |-> RawEnvelope("tools/call", ToolsCallParams(in[1], in[2]))] :
            in \in ToolArguments }

ToolRequest(r) ==
    /\ Len(http) < MaxToolRaw
    /\ http' = Append(http, NewHttp(r.ep, <<"s1">>, r.body, "raw"))
    /\ UNCHANGED <<clock, tools, activeSessions, remindersDb, responses,
                   clientVars, agentVars, outbox>>

\* GET /tools/list_reminders
ServeListReminders(n) ==
    /\ http[n].ep = "/tools/list_reminders" /\ http[n].st = "sent"
    /\ LET down == ListRemindersEndpoint(remindersDb)
       IN /\ responses' = Emit(n, "plain", down.reply)
          /\ remindersDb' = down.db
    /\ http' = SetSt(n, "done")
    /\ UNCHANGED <<clock, tools, activeSessions, clientVars, agentVars, outbox>>

\* POST /tools/add_reminder
ServeAddReminder(n, rnd) ==
    /\ http[n].ep = "/tools/add_reminder" /\ http[n].st = "sent"
    /\ LET down == AddReminderEndpoint(http[n].body, remindersDb, clock, rnd)
       IN /\ responses' = Emit(n, "plain", down.reply)
          /\ remindersDb' = down.db
    /\ http' = SetSt(n, "done")
    /\ UNCHANGED <<clock, tools, activeSessions, clientVars, agentVars, outbox>>

\* POST /tools/send_email_reminder, up to the await of the email service
ServeSendEmailReminder(n, rnd) ==
    /\ http[n].ep = "/tools/send_email_reminder" /\ http[n].st = "sent"
    /\ LET body == http[n].body
       IN IF ~Truthy(Get(body, "time")) \/ ~Truthy(Get(body, "task"))
             \/ ~Truthy(Get(body, "email"))
          THEN /\ responses' = Emit(n, "plain",
                       SendEmailReminderEndpoint(body, remindersDb, clock, rnd,
                                                 TRUE).reply)
               /\ http' = SetSt(n, "done")
          ELSE /\ responses' = responses
               /\ http' = SetSt(n, "running")
    /\ UNCHANGED <<clock, tools, activeSessions, remindersDb, clientVars, agentVars, outbox>>

\* POST /tools/send_email_reminder, from the email service's answer on
EmailServiceAnswers(n, rnd, smtpOk) ==
    /\ http[n].ep = "/tools/send_email_reminder" /\ http[n].st = "running"
    /\ LET down == SendEmailReminderEndpoint(http[n].body, remindersDb, clock, rnd,
                                             smtpOk)
       IN /\ responses' = Emit(n, "plain", down.reply)
          /\ remindersDb' = down.db
    /\ http' = [http EXCEPT ![n].st = "done",
                            ![n].outcome = IF smtpOk THEN "returned" ELSE "threw"]
    /\ UNCHANGED <<clock, tools, activeSessions, clientVars, agentVars, outbox>>

Tick ==
    /\ clock + 1 \in Instants
    /\ clock' = clock + 1
    /\ UNCHANGED <<serverVars, clientVars, agentVars, outbox>>

(***************************************************************************)
(* mcp-protocol.ts: the MCPClient.                                         *)
(***************************************************************************)
NoError == [kind |-> "none", message |-> <<>>]
Thrown(kind, message) == [kind |-> kind, message |-> message]

\* the constructor's sessionId, for the clock and Math.random() of construction
NewSessionId(now, rnd) == <<"mcp_session_">> \o NatToks(now) \o <<"_", rnd>>

StatusText(status) ==
    CASE status = 400 -> "Bad Request"
      [] status = 500 -> "Internal Server Error"
      [] status = 503 -> "Service Unavailable"
      [] OTHER -> ""

\* the outcomes of fetch(): rejected, or resolved with an HTTP response
Rejected == [rejected |-> TRUE, status |-> 0, body |-> Undef]
Resolved(reply) == [rejected |-> FALSE, status |-> reply.status, body |-> reply.body]

\* sendMCPRequest, from the point where fetch settles
SendMCPRequest(fetched) ==
    IF fetched.rejected
    THEN [threw |-> TRUE, error |-> Thrown("TypeError", <<"fetch failed">>),
          value |-> Undef]
    ELSE IF ~StatusOk(fetched.status)
    THEN [threw |-> TRUE,
          error |-> Thrown("Error", <<"MCP request failed: ">> \o NatToks(fetched.status)
                                    \o <<" ", StatusText(fetched.status)>>),
          value |-> Undef]
    ELSE LET mcpResponse == fetched.body
             error == Get(mcpResponse, "error")
         IN IF mcpResponse.t = "html"
            THEN [threw |-> TRUE,
                  error |-> Thrown("SyntaxError", <<"Unexpected token < in JSON">>),
                  value |-> Undef]
            ELSE IF ~Derefable(mcpResponse)
            THEN [threw |-> TRUE,
                  error |-> Thrown("TypeError", <<"Cannot read properties of null">>),
                  value |-> Undef]
            ELSE IF Truthy(error)
            THEN [threw |-> TRUE,
                  error |-> Thrown("Error", <<"MCP Error ">> \o ToStr(Get(error, "code"))
                                            \o <<": ">> \o ToStr(Get(error, "message"))),
                  value |-> Undef]
            ELSE [threw |-> FALSE, error |-> NoError, value |-> mcpResponse]

InitializeRequest ==
    Obj(<<JsonRpc, KV("id", Num(1)), KV("method", Str(<<"initialize">>)),
          KV("params",
             Obj(<<KV("protocolVersion", ProtocolVersion),
                   KV("capabilities",
                      Obj(<<KV("roots", Obj(<<KV("listChanged", Bool(TRUE))>>)),
                            KV("sampling", Obj(<<>>))>>)),
                   KV("clientInfo",
                      Obj(<<KV("name", Str(<<"MCP Learning Client">>)),
                            KV("version", Str(<<"1.0.0">>))>>))>>))>>)

ToolsListRequest ==
    Obj(<<JsonRpc, KV("id", Num(2)), KV("method", Str(<<"tools/list">>))>>)

ToolsCallRequest(now, toolName, parameters) ==
    Obj(<<JsonRpc, KV("id", Num(now)), KV("method", Str(<<"tools/call">>)),
          KV("params", ToolsCallParams(toolName, parameters))>>)

\* tls.length, tls.map(t => t.name) and tls.forEach(tool => tool.name) all run
NamesReadable(tls) ==
    /\ tls.t = "arr"
    /\ \A j \in 1..Len(tls.a) : Derefable(tls.a[j])

WrappedInitError == Thrown("Error", <<"Failed to establish MCP connection">>)
NotInitializedError == Thrown("Error", <<"MCP not initialized. Call initialize() first.">>)
NotIterableError == Thrown("TypeError", <<"Cannot read properties of undefined">>)

NewCall(op, request, n) ==
    [op |-> op, st |-> "pending", req |-> n, request |-> request,
     fetched |-> "none", ret |-> Undef, error |-> NoError]

Returned(c, value) == [c EXCEPT !.st = "returned", !.ret = value]
Raised(c, error) == [c EXCEPT !.st = "raised", !.error = error]

\* the bug of a fetch wrapper that sends every request twice
FetchTwice(ep, request) ==
    /\ fetches' = fetches + 2
    /\ http' = IF serverUrl = "repo"
               THEN Append(http, NewHttp(ep, sessionId, request, "client"))
               ELSE http

\* fetch(): one more network request; it reaches the repository's server when
\* serverUrl names it
Fetch(ep, request) ==
    /\ fetches' = fetches + 1
    /\ http' = IF serverUrl = "repo"
               THEN Append(http, NewHttp(ep, sessionId, request, "client"))
               ELSE http

CanStart == Len(calls) < (IF serverUrl = "repo" THEN MaxCalls ELSE MaxStubCalls)

ReqNo == IF serverUrl = "repo" THEN Len(http) + 1 ELSE 0

\* initialize(), up to the await
Initialize ==
    /\ Fetch("/mcp/initialize", InitializeRequest)
    /\ calls' = Append(calls, NewCall("initialize", InitializeRequest, ReqNo))
    /\ UNCHANGED <<clock, tools, activeSessions, remindersDb, responses,
                   serverUrl, sessionId, capabilities, agentVars, outbox>>

\* discoverTools(), up to the await
DiscoverTools ==
    /\ IF ~Truthy(capabilities)
       THEN /\ calls' = Append(calls, Raised(NewCall("discoverTools", Undef, 0),
                                             NotInitializedError))
            /\ UNCHANGED <<fetches, http, agentVars, outbox>>
       ELSE /\ Fetch("/mcp/tools/list", ToolsListRequest)
            /\ calls' = Append(calls, NewCall("discoverTools", ToolsListRequest, ReqNo))
    /\ UNCHANGED <<clock, tools, activeSessions, remindersDb, responses,
                   serverUrl, sessionId, capabilities, agentVars, outbox>>

\* callTool(toolName, parameters), up to the await
CallTool(toolName, parameters) ==
    /\ LET request == ToolsCallRequest(clock, toolName, parameters)
       IN /\ Fetch("/mcp/tools/call", request)
          /\ calls' = Append(calls, NewCall("callTool", request, ReqNo))
    /\ UNCHANGED <<clock, tools, activeSessions, remindersDb, responses,
                   serverUrl, sessionId, capabilities, agentVars, outbox>>

\* the bug of a callTool() that drops the session when its request fails
SettleDroppingSession(i, fetched) ==
    LET c == [calls[i] EXCEPT !.fetched = IF fetched.rejected THEN "rejected"
                                          ELSE "resolved"]
        sent == SendMCPRequest(fetched)
        result == Get(sent.value, "result")
    IN CASE c.op = "initialize" ->
              IF sent.threw
              THEN /\ capabilities' = capabilities
                   /\ calls' = [calls EXCEPT ![i] = Raised(c, WrappedInitError)]
              ELSE /\ capabilities' = result
                   /\ calls' = [calls EXCEPT ![i] =
                         IF Derefable(result) /\ NamesReadable(Get(result, "tools"))
                         THEN Returned(c, result)
                         ELSE Raised(c, WrappedInitError)]
         [] c.op = "discoverTools" ->
              /\ capabilities' = capabilities
              /\ calls' = [calls EXCEPT ![i] =
                    IF sent.threw THEN Raised(c, sent.error)
                    ELSE IF ~Derefable(result) THEN Raised(c, NotIterableError)
                    ELSE IF Truthy(Get(result, "tools"))
                    THEN (IF NamesReadable(Get(result, "tools"))
                          THEN Returned(c, Get(result, "tools"))
                          ELSE Raised(c, NotIterableError))
                    ELSE IF Derefable(capabilities)
                            /\ NamesReadable(Get(capabilities, "tools"))
                    THEN Returned(c, Get(capabilities, "tools"))
                    ELSE Raised(c, NotIterableError)]
         [] c.op = "callTool" ->
              /\ capabilities' = IF sent.threw THEN Null ELSE capabilities
              /\ calls' = [calls EXCEPT ![i] =
                    IF sent.threw THEN Raised(c, sent.error)
                    ELSE Returned(c, result)]

\* the bug of a discoverTools() that stores the tools/list result as the
\* capabilities snapshot
SettleRefreshingSnapshot(i, fetched) ==
    LET c == [calls[i] EXCEPT !.fetched = IF fetched.rejected THEN "rejected"
                                          ELSE "resolved"]
        sent == SendMCPRequest(fetched)
        result == Get(sent.value, "result")
    IN CASE c.op = "initialize" ->
              IF sent.threw
              THEN /\ capabilities' = capabilities
                   /\ calls' = [calls EXCEPT ![i] = Raised(c, WrappedInitError)]
              ELSE /\ capabilities' = result
                   /\ calls' = [calls EXCEPT ![i] =
                         IF Derefable(result) /\ NamesReadable(Get(result, "tools"))
                         THEN Returned(c, result)
                         ELSE Raised(c, WrappedInitError)]
         [] c.op = "discoverTools" ->
              /\ capabilities' = (IF sent.threw THEN capabilities ELSE result)
              /\ calls' = [calls EXCEPT ![i] =
                    IF sent.threw THEN Raised(c, sent.error)
                    ELSE IF ~Derefable(result) THEN Raised(c, NotIterableError)
                    ELSE IF Truthy(Get(result, "tools"))
                    THEN (IF NamesReadable(Get(result, "tools"))
                          THEN Returned(c, Get(result, "tools"))
                          ELSE Raised(c, NotIterableError))
                    ELSE IF Derefable(capabilities)
                            /\ NamesReadable(Get(capabilities, "tools"))
                    THEN Returned(c, Get(capabilities, "tools"))
                    ELSE Raised(c, NotIterableError)]
         [] c.op = "callTool" ->
              /\ capabilities' = capabilities
              /\ calls' = [calls EXCEPT ![i] =
                    IF sent.threw THEN Raised(c, sent.error)
                    ELSE Returned(c, result)]

\* the rest of initialize(), discoverTools() or callTool() once its fetch settled
Settle(i, fetched) ==
    LET c == [calls[i] EXCEPT !.fetched = IF fetched.rejected THEN "rejected"
                                          ELSE "resolved"]
        sent == SendMCPRequest(fetched)
        result == Get(sent.value, "result")
    IN CASE c.op = "initialize" ->
              IF sent.threw
              THEN /\ capabilities' = capabilities
                   /\ calls' = [calls EXCEPT ![i] = Raised(c, WrappedInitError)]
              ELSE /\ capabilities' = result
                   /\ calls' = [calls EXCEPT ![i] =
                         IF Derefable(result) /\ NamesReadable(Get(result, "tools"))
                         THEN Returned(c, result)
                         ELSE Raised(c, WrappedInitError)]
         [] c.op = "discoverTools" ->
              /\ capabilities' = capabilities
              /\ calls' = [calls EXCEPT ![i] =
                    IF sent.threw THEN Raised(c, sent.error)
                    ELSE IF ~Derefable(result) THEN Raised(c, NotIterableError)
                    ELSE IF Truthy(Get(result, "tools"))
                    THEN (IF NamesReadable(Get(result, "tools"))
                          THEN Returned(c, Get(result, "tools"))
                          ELSE Raised(c, NotIterableError))
                    ELSE IF Derefable(capabilities)
                            /\ NamesReadable(Get(capabilities, "tools"))
                    THEN Returned(c, Get(capabilities, "tools"))
                    ELSE Raised(c, NotIterableError)]
         [] c.op = "callTool" ->
              /\ capabilities' = capabilities
              /\ calls' = [calls EXCEPT ![i] =
                    IF sent.threw THEN Raised(c, sent.error)
                    ELSE Returned(c, result)]

Pending(i) == i \in 1..Len(calls) /\ calls[i].st = "pending"

\* the network fails: fetch rejects
FetchRejects(i) ==
    /\ Pending(i)
    /\ Settle(i, Rejected)
    /\ UNCHANGED <<clock, serverVars, serverUrl, sessionId, fetches, agentVars, outbox>>

\* the bug of handing a waiting call whichever response the server emitted,
\* not the one of its own request
FetchResolvesInArrivalOrder(i) ==
    /\ Pending(i) /\ serverUrl = "repo"
    /\ \E j \in 1..Len(responses) :
          Settle(i, Resolved(responses[j]))
    /\ UNCHANGED <<clock, serverVars, serverUrl, sessionId, fetches, agentVars, outbox>>

\* the response of the repository's server arrives
FetchResolves(i) ==
    /\ Pending(i) /\ serverUrl = "repo"
    /\ \E j \in ResponsesTo(calls[i].req) :
          Settle(i, Resolved(responses[j]))
    /\ UNCHANGED <<clock, serverVars, serverUrl, sessionId, fetches, agentVars, outbox>>

\* what a server other than the repository's may answer
EchoTool == ToolDescriptor("echo", "Echoes its text", <<Prop("text", "string")>>,
                           <<Str(<<"text">>)>>)
StubReplies ==
    { HttpReply(200, Obj(<<JsonRpc, KV("id", Num(1)),
                           KV("result", Capabilities(Arr(<<EchoTool>>)))>>)),
      HttpReply(200, Obj(<<JsonRpc, KV("id", Num(1))>>)),
      HttpReply(200, Obj(<<JsonRpc, KV("id", Num(1)), KV("result", Obj(<<>>))>>)),
      HttpReply(200, Obj(<<JsonRpc, KV("id", Num(1)),
                           KV("error", Obj(<<KV("code", Num(-32601)),
                                             KV("message", Str(<<"Method not found">>))>>))>>)),
      [status |-> 503, body |-> HtmlPage] }

StubResolves(i, reply) ==
    /\ Pending(i) /\ serverUrl = "other"
    /\ Settle(i, Resolved(reply))
    /\ UNCHANGED <<clock, serverVars, serverUrl, sessionId, fetches, agentVars, outbox>>

(***************************************************************************)
(* mcp_client.ts: the CLI client.  main() awaits initializeMCPClient(),    *)
(* which awaits initialize() and then discoverTools(); only then are the   *)
(* tools and the readline loop created.  When either call raises, main()   *)
(* ends the process.  The client's position is told by its calls so far.   *)
(***************************************************************************)
\* the callTool() invocations the tools of createMCPTools make
CliToolInputs ==
    { <<"add_reminder", Obj(<<KV("time", PlainTime), KV("task", QuotedTask)>>)>>,
      <<"send_email_reminder",
        Obj(<<KV("time", PlainTime), KV("task", QuotedTask), KV("email", SomeEmail),
              KV("eventDuration", Undef), KV("eventLocation", Undef)>>)>>,
      <<"list_reminders", Obj(<<>>)>> }

\* initializeMCPClient has returned: both awaits came back with a value
CliReady ==
    /\ Len(calls) >= 2
    /\ calls[1].st = "returned"
    /\ calls[2].st = "returned"

\* main() calls initializeMCPClient(), which calls initialize()
CliMain ==
    /\ calls = <<>>
    /\ Initialize

\* initialize() has returned: initializeMCPClient goes on to discoverTools()
CliDiscoverTools ==
    /\ Len(calls) = 1 /\ calls[1].st = "returned"
    /\ DiscoverTools

\* the bug of a readline loop set up before initializeMCPClient is awaited
CliLineBeforeReady(toolName, parameters) ==
    /\ Len(calls) >= 1
    /\ Len(calls) < 2 + MaxCliCalls
    /\ CallTool(toolName, parameters)

\* a line of input makes the agent invoke a tool, which calls callTool()
CliLine(toolName, parameters) ==
    /\ CliReady
    /\ Len(calls) < 2 + MaxCliCalls
    /\ CallTool(toolName, parameters)

(***************************************************************************)
(* agent-executor.ts: the ExecutionTracker.                                *)
(* An ExecutionStep is an object on the heap (objects); the tracker's      *)
(* array and the arrays getSteps() returns hold references to them.  The   *)
(* field by of an object is not in the code: it names the run and the tool *)
(* invocation whose code created the step.                                 *)
(***************************************************************************)
Tracker == [objects |-> objects, steps |-> steps, stepCounter |-> stepCounter]

SetTracker(T) ==
    /\ objects' = T.objects
    /\ steps' = T.steps
    /\ stepCounter' = T.stepCounter

\* `step-${n}`
StepId(n) == <<"step-">> \o NatToks(n)

NoOwner == [run |-> 0, inv |-> 0]

\* the bug of a post-increment: `step-${this.stepCounter++}`
AddStepPostIncrement(T, type, content, actor, target, metadata, now, by) ==
    LET step == [id |-> Str(StepId(T.stepCounter)), type |-> type,
                 timestamp |-> ISOString(now), content |-> content,
                 actor |-> actor, target |-> target, duration |-> Undef,
                 metadata |-> metadata, by |-> by]
    IN [objects |-> Append(T.objects, step),
        steps |-> Append(T.steps, Len(T.objects) + 1),
        stepCounter |-> T.stepCounter + 1]

\* addStep: the tracker after the call; the id it returns is the id of the
\* step it made, NewStepId
AddStep(T, type, content, actor, target, metadata, now, by) ==
    LET step == [id |-> Str(StepId(T.stepCounter + 1)), type |-> type,
                 timestamp |-> ISOString(now), content |-> content,
                 actor |-> actor, target |-> target, duration |-> Undef,
                 metadata |-> metadata, by |-> by]
    IN [objects |-> Append(T.objects, step),
        steps |-> Append(T.steps, Len(T.objects) + 1),
        stepCounter |-> T.stepCounter + 1]

NewStepId(T) == Str(StepId(T.stepCounter + 1))

\* this.steps.find(s => s.id === id): the position of the first match, or 0
FindStep(T, id) ==
    IF \E i \in 1..Len(T.steps) : T.objects[T.steps[i]].id = id
    THEN CHOOSE i \in 1..Len(T.steps) :
            /\ T.objects[T.steps[i]].id = id
            /\ \A k \in 1..(i - 1) : T.objects[T.steps[k]].id # id
    ELSE 0

\* the bug of an assignment in the predicate, find(s => s.id = id): the first
\* step matches, and gets the id
UpdateStepDurationAssigning(T, id, duration) ==
    IF T.steps = <<>> THEN T
    ELSE [T EXCEPT !.objects[T.steps[1]].id = id,
                   !.objects[T.steps[1]].duration = Num(duration)]

\* updateStepDuration
UpdateStepDuration(T, id, duration) ==
    LET i == FindStep(T, id)
    IN IF i = 0 THEN T
       ELSE [T EXCEPT !.objects[T.steps[i]].duration = Num(duration)]

\* getSteps: [...this.steps], a new array of the same references
GetSteps(T) == T.steps

\* the bug of a clear() that keeps the counter
ClearKeepingCounter(T) == [T EXCEPT !.steps = <<>>]

\* clear
Clear(T) == [T EXCEPT !.steps = <<>>, !.stepCounter = 0]

\* what a holder of the array refs sees through it
Deref(refs) == [i \in 1..Len(refs) |-> objects[refs[i]]]

(***************************************************************************)
(* Calls on an ExecutionTracker by any user of the class.                  *)
(***************************************************************************)
StepTypes == {"tool_call", "error"}
Durations == {0, 5}
SomeIds == {Str(StepId(n)) : n \in 1..(MaxSteps + 1)} \cup {Str(<<"error">>)}

TrackerAddStep(type) ==
    /\ Len(objects) < MaxSteps
    /\ SetTracker(AddStep(Tracker, type, Str(<<"content">>), Str(<<"Agent">>),
                          Str(<<"MCPClient">>), Undef, clock, NoOwner))
    /\ UNCHANGED <<clock, serverVars, clientVars, snapshots, runs, invocations, outbox>>

TrackerUpdateStepDuration(id, duration) ==
    /\ SetTracker(UpdateStepDuration(Tracker, id, duration))
    /\ UNCHANGED <<clock, serverVars, clientVars, snapshots, runs, invocations, outbox>>

TrackerGetSteps ==
    /\ Len(snapshots) < MaxSnapshots
    /\ snapshots' = Append(snapshots, [refs |-> GetSteps(Tracker),
                                       seen |-> Deref(GetSteps(Tracker))])
    /\ UNCHANGED <<clock, serverVars, clientVars, objects, steps, stepCounter,
                   runs, invocations, outbox>>

TrackerClear ==
    /\ SetTracker(Clear(Tracker))
    /\ UNCHANGED <<clock, serverVars, clientVars, snapshots, runs, invocations, outbox>>

(***************************************************************************)
(* agent-executor.ts: the three tools of the agent.  Each is the part      *)
(* before its await (the steps recorded, then the request issued) and the  *)
(* part after it (the steps recorded for the outcome res of the request,   *)
(* and the string returned to the agent).  All use the one module-level    *)
(* tracker.  by is the run and the invocation that records the step.       *)
(***************************************************************************)
Owner(r, k) == [run |-> r, inv |-> k]

Actor(name) == Str(<<name>>)

\* error instanceof Error ? error.message : 'Unknown error'
ErrorText(res) == Str(res.message)

McpRequest(name, input, mcpRequestId) ==
    Obj(<<JsonRpc, KV("id", Num(mcpRequestId)), KV("method", Str(<<"tools/call">>)),
          KV("params", ToolsCallParams(name, input))>>)

McpResponse(data, mcpRequestId) ==
    Obj(<<JsonRpc, KV("id", Num(mcpRequestId)),
          KV("result", Obj(<<KV("content",
              Arr(<<Obj(<<KV("type", Str(<<"text">>)),
                          KV("text", JSONstringify(data))>>)>>))>>))>>)

AddReminderToolCall(T, input, now, by) ==
    LET T1 == AddStep(T, "tool_call", Str(<<"Agent selects add_reminder tool">>),
                      Actor("Agent"), Actor("MCPClient"),
                      Obj(<<KV("toolName", Str(<<"add_reminder">>)),
                            KV("parameters", input)>>), now, by)
        T2 == AddStep(T1, "tool_call", Str(<<"MCP JSON-RPC Request: tools/call">>),
                      Actor("MCPClient"), Actor("MCPServer"),
                      Obj(<<KV("request", McpRequest("add_reminder", input, now))>>),
                      now, by)
    IN AddStep(T2, "tool_call", Str(<<"MCP Server routes to tool handler">>),
               Actor("MCPServer"), Actor("ReminderService"),
               Obj(<<KV("toolName", Str(<<"add_reminder">>)),
                     KV("mcpRequestId", Num(now))>>), now, by)

AddReminderToolSettle(T, inv, res, status, now, by) ==
    LET duration == now - inv.startTime
        responseContent == JSONstringify(res.data)
        errorMessage == <<"Failed to add reminder. Please check the server.">>
    IN IF res.ok
       THEN LET T4 == AddStep(T, "tool_response", Str(<<"Reminder stored successfully">>),
                              Actor("ReminderService"), Actor("MCPServer"),
                              Obj(<<KV("statusCode", Num(status)),
                                    KV("data", res.data)>>), now, by)
                T5 == AddStep(T4, "tool_response", Str(<<"MCP JSON-RPC Response">>),
                              Actor("MCPServer"), Actor("MCPClient"),
                              Obj(<<KV("response",
                                       McpResponse(res.data, inv.mcpRequestId))>>),
                              now, by)
            IN [T |-> AddStep(T5, "tool_response", responseContent,
                              Actor("MCPClient"), Actor("Agent"),
                              Obj(<<KV("statusCode", Num(status)),
                                    KV("totalDuration", Num(duration))>>), now, by),
                ret |-> responseContent]
       ELSE LET T4 == AddStep(T, "error", Str(<<"MCP Error: ">> \o errorMessage),
                              Actor("MCPServer"), Actor("MCPClient"),
                              Obj(<<KV("error", ErrorText(res)),
                                    KV("totalDuration", Num(duration))>>), now, by)
            IN [T |-> AddStep(T4, "error", Str(errorMessage),
                              Actor("MCPClient"), Actor("Agent"),
                              Obj(<<KV("error", ErrorText(res))>>), now, by),
                ret |-> Str(errorMessage)]

ListRemindersToolCall(T, now, by) ==
    AddStep(T, "tool_call", Str(<<"list_reminders()">>),
            Actor("Agent"), Actor("ReminderService"), Undef, now, by)

ListRemindersToolSettle(T, inv, res, now, by) ==
    LET duration == now - inv.startTime
        T1 == UpdateStepDuration(T, inv.stepId, duration)
        reminders == res.data
        responseContent == IF Len(reminders.a) = 0
                           THEN Str(<<"You have no reminders set.">>)
                           ELSE JSONstringify(reminders)
        errorMessage == Str(<<"Failed to list reminders. Please check the server.">>)
    IN IF res.ok
       THEN [T |-> AddStep(T1, "tool_response", responseContent,
                           Actor("ReminderService"), Actor("Agent"),
                           Obj(<<KV("reminderCount", Num(Len(reminders.a)))>>),
                           now, by),
             ret |-> responseContent]
       ELSE [T |-> AddStep(T1, "error", errorMessage,
                           Actor("ReminderService"), Actor("Agent"),
                           Obj(<<KV("error", ErrorText(res))>>), now, by),
             ret |-> errorMessage]

SendEmailReminderToolCall(T, input, now, by) ==
    LET T1 == AddStep(T, "tool_call",
                      Str(<<"Agent selects send_email_reminder tool">>),
                      Actor("Agent"), Actor("MCPClient"),
                      Obj(<<KV("toolName", Str(<<"send_email_reminder">>)),
                            KV("parameters", input)>>), now, by)
        T2 == AddStep(T1, "tool_call", Str(<<"MCP JSON-RPC Request: tools/call">>),
                      Actor("MCPClient"), Actor("MCPServer"),
                      Obj(<<KV("request",
                               McpRequest("send_email_reminder", input, now))>>),
                      now, by)
    IN AddStep(T2, "tool_call", Str(<<"MCP Server routes to email tool handler">>),
               Actor("MCPServer"), Actor("EmailService"),
               Obj(<<KV("toolName", Str(<<"send_email_reminder">>)),
                     KV("mcpRequestId", Num(now)),
                     KV("emailTarget", Get(input, "email"))>>), now, by)

SendEmailReminderToolSettle(T, inv, res, status, now, by) ==
    LET duration == now - inv.startTime
        responseContent == JSONstringify(res.data)
        errorMessage == <<"Failed to send email reminder. Please check the email server and configuration.">>
    IN IF res.ok
       THEN LET T4 == AddStep(T, "tool_response",
                              Str(<<"Email sent with calendar invite">>),
                              Actor("EmailService"), Actor("MCPServer"),
                              Obj(<<KV("statusCode", Num(status)),
                                    KV("emailSent", Bool(TRUE)),
                                    KV("calendarIncluded",
                                       Get(res.data, "calendarIncluded")),
                                    KV("data", res.data)>>), now, by)
                T5 == AddStep(T4, "tool_response", Str(<<"MCP JSON-RPC Response">>),
                              Actor("MCPServer"), Actor("MCPClient"),
                              Obj(<<KV("response",
                                       McpResponse(res.data, inv.mcpRequestId))>>),
                              now, by)
            IN [T |-> AddStep(T5, "tool_response", responseContent,
                              Actor("MCPClient"), Actor("Agent"),
                              Obj(<<KV("statusCode", Num(status)),
                                    KV("emailSent", Bool(TRUE)),
                                    KV("totalDuration", Num(duration))>>), now, by),
                ret |-> responseContent]
       ELSE LET T4 == AddStep(T, "error", Str(<<"MCP Error: ">> \o errorMessage),
                              Actor("MCPServer"), Actor("MCPClient"),
                              Obj(<<KV("error", ErrorText(res)),
                                    KV("emailSent", Bool(FALSE)),
                                    KV("totalDuration", Num(duration))>>), now, by)
            IN [T |-> AddStep(T4, "error", Str(errorMessage),
                              Actor("MCPClient"), Actor("Agent"),
                              Obj(<<KV("error", ErrorText(res)),
                                    KV("emailSent", Bool(FALSE))>>), now, by),
                ret |-> Str(errorMessage)]

(***************************************************************************)
(* agent-executor.ts: executeAgentQuery.  A run is at "invoking" while     *)
(* agentExecutor.invoke() is pending and the agent may pick a tool, at     *)
(* "tool" while a tool of the run awaits its request, and at "returned" or *)
(* "threw" afterwards.  POST /agent/execute starts a run for each request, *)
(* so runs overlap whenever requests do.                                   *)
(***************************************************************************)
Queries == {Str(<<"remind me">>)}
AgentOutput == Str(<<"Done.">>)
LlmFailure == <<"fetch failed">>

\* the tool calls the agent makes: arguments that pass the tools' zod schemas
AgentToolInputs ==
    { <<"add_reminder", Obj(<<KV("time", PlainTime), KV("task", QuotedTask)>>)>>,
      <<"send_email_reminder",
        Obj(<<KV("time", PlainTime), KV("task", QuotedTask),
              KV("email", SomeEmail)>>)>>,
      <<"list_reminders", Obj(<<>>)>> }

\* the connection failure of axios when the reminder server is not reachable
ConnectionRefused ==
    [ok |-> FALSE, data |-> Undef, message |-> <<"connect ECONNREFUSED">>]

\* the bug of an executeAgentQuery that does not clear the tracker
ExecuteAgentQueryKeepingSteps(query) ==
    /\ Len(runs) < MaxRuns
    /\ LET r == Len(runs) + 1
           T1 == AddStep(Tracker, "start",
                         Str(<<"Processing query: ", QUOTE>> \o query.s \o <<QUOTE>>),
                         Actor("User"), Actor("Agent"),
                         Obj(<<KV("query", query)>>), clock, Owner(r, 0))
           T2 == AddStep(T1, "llm_response",
                         Str(<<"Analyzing query and planning actions...">>),
                         Actor("Agent"), Actor("LLM"), Undef, clock, Owner(r, 0))
       IN /\ SetTracker(T2)
          /\ runs' = Append(runs, [query |-> query, pc |-> "invoking",
                                   startTime |-> clock, llmStepId |-> NewStepId(T1),
                                   refs |-> <<>>, seen |-> <<>>])
    /\ UNCHANGED <<clock, serverVars, clientVars, snapshots, invocations, outbox>>

\* lines 353-374: up to the await of agentExecutor.invoke().  The await of
\* createToolCallingAgent() does no I/O, so no other request runs in between.
ExecuteAgentQuery(query) ==
    /\ Len(runs) < MaxRuns
    /\ LET r == Len(runs) + 1
           T1 == AddStep(Clear(Tracker), "start",
                         Str(<<"Processing query: ", QUOTE>> \o query.s \o <<QUOTE>>),
                         Actor("User"), Actor("Agent"),
                         Obj(<<KV("query", query)>>), clock, Owner(r, 0))
           T2 == AddStep(T1, "llm_response",
                         Str(<<"Analyzing query and planning actions...">>),
                         Actor("Agent"), Actor("LLM"), Undef, clock, Owner(r, 0))
       IN /\ SetTracker(T2)
          /\ runs' = Append(runs, [query |-> query, pc |-> "invoking",
                                   startTime |-> clock, llmStepId |-> NewStepId(T1),
                                   refs |-> <<>>, seen |-> <<>>])
    /\ UNCHANGED <<clock, serverVars, clientVars, snapshots, invocations, outbox>>

\* the agent of run r invokes a tool: the tool function up to its await
AgentCallsTool(r, name, input) ==
    /\ runs[r].pc = "invoking"
    /\ Len(invocations) < MaxToolCalls
    /\ LET k == Len(invocations) + 1
           by == Owner(r, k)
       IN /\ SetTracker(CASE name = "add_reminder" ->
                                 AddReminderToolCall(Tracker, input, clock, by)
                          [] name = "send_email_reminder" ->
                                 SendEmailReminderToolCall(Tracker, input, clock, by)
                          [] name = "list_reminders" ->
                                 ListRemindersToolCall(Tracker, clock, by))
          /\ invocations' = Append(invocations,
                 [run |-> r, tool |-> name, input |-> input, st |-> "awaiting",
                  startTime |-> clock, mcpRequestId |-> clock,
                  stepId |-> NewStepId(Tracker), ok |-> FALSE, ret |-> Undef])
    /\ runs' = [runs EXCEPT ![r].pc = "tool"]
    /\ UNCHANGED <<clock, serverVars, clientVars, snapshots, outbox>>

\* the bug of tools without a catch: a failed request leaves the tool as an
\* exception, agentExecutor.invoke() rejects and executeAgentQuery records the
\* error and rethrows
ToolSettlesRaising(k, reachable, rnd, smtpOk) ==
    /\ invocations[k].st = "awaiting"
    /\ LET inv == invocations[k]
           by == Owner(inv.run, k)
           down == CASE inv.tool = "add_reminder" ->
                            AddReminderEndpoint(AxiosBody(inv.input), remindersDb,
                                                clock, rnd)
                     [] inv.tool = "send_email_reminder" ->
                            SendEmailReminderEndpoint(AxiosBody(inv.input), remindersDb,
                                                      clock, rnd, smtpOk)
                     [] inv.tool = "list_reminders" ->
                            ListRemindersEndpoint(remindersDb)
           res == IF reachable THEN AxiosResult(down.reply) ELSE ConnectionRefused
           out == CASE inv.tool = "add_reminder" ->
                           AddReminderToolSettle(Tracker, inv, res, down.reply.status,
                                                 clock, by)
                    [] inv.tool = "send_email_reminder" ->
                           SendEmailReminderToolSettle(Tracker, inv, res,
                                                       down.reply.status, clock, by)
                    [] inv.tool = "list_reminders" ->
                           ListRemindersToolSettle(Tracker, inv, res, clock, by)
       IN /\ SetTracker(IF res.ok THEN out.T
                        ELSE AddStep(Tracker, "error",
                                     Str(<<"Agent execution failed: ">> \o res.message),
                                     Actor("Agent"), Actor("User"),
                                     Obj(<<KV("error", Str(res.message))>>), clock,
                                     Owner(inv.run, 0)))
          /\ remindersDb' = IF reachable THEN down.db ELSE remindersDb
          /\ invocations' = [invocations EXCEPT ![k].st = "returned",
                                                ![k].ok = res.ok,
                                                ![k].ret = out.ret]
          /\ runs' = [runs EXCEPT ![inv.run].pc = IF res.ok THEN "invoking" ELSE "threw"]
    /\ UNCHANGED <<clock, tools, activeSessions, http, responses, clientVars,
                   snapshots, outbox>>

\* the request of invocation k settles (answered by the tool endpoint, or
\* refused), and the tool function runs from its await to its return
ToolSettles(k, reachable, rnd, smtpOk) ==
    /\ invocations[k].st = "awaiting"
    /\ LET inv == invocations[k]
           by == Owner(inv.run, k)
           down == CASE inv.tool = "add_reminder" ->
                            AddReminderEndpoint(AxiosBody(inv.input), remindersDb,
                                                clock, rnd)
                     [] inv.tool = "send_email_reminder" ->
                            SendEmailReminderEndpoint(AxiosBody(inv.input), remindersDb,
                                                      clock, rnd, smtpOk)
                     [] inv.tool = "list_reminders" ->
                            ListRemindersEndpoint(remindersDb)
           res == IF reachable THEN AxiosResult(down.reply) ELSE ConnectionRefused
           out == CASE inv.tool = "add_reminder" ->
                           AddReminderToolSettle(Tracker, inv, res, down.reply.status,
                                                 clock, by)
                    [] inv.tool = "send_email_reminder" ->
                           SendEmailReminderToolSettle(Tracker, inv, res,
                                                       down.reply.status, clock, by)
                    [] inv.tool = "list_reminders" ->
                           ListRemindersToolSettle(Tracker, inv, res, clock, by)
       IN /\ SetTracker(out.T)
          /\ remindersDb' = IF reachable THEN down.db ELSE remindersDb
          /\ invocations' = [invocations EXCEPT ![k].st = "returned",
                                                ![k].ok = res.ok,
                                                ![k].ret = out.ret]
          /\ runs' = [runs EXCEPT ![inv.run].pc = "invoking"]
    /\ UNCHANGED <<clock, tools, activeSessions, http, responses, clientVars,
                   snapshots, outbox>>

\* lines 382-392: agentExecutor.invoke() resolves with the agent's answer
AgentAnswers(r) ==
    /\ runs[r].pc = "invoking"
    /\ LET duration == clock - runs[r].startTime
           by == Owner(r, 0)
           T1 == UpdateStepDuration(Tracker, runs[r].llmStepId, duration)
           T2 == AddStep(T1, "llm_response", AgentOutput, Actor("LLM"), Actor("User"),
                         Obj(<<KV("totalDuration", Num(duration))>>), clock, by)
           T3 == AddStep(T2, "end", Str(<<"Query execution completed">>),
                         Actor("Agent"), Actor("User"), Undef, clock, by)
       IN /\ SetTracker(T3)
          /\ runs' = [runs EXCEPT ![r].pc = "returned",
                                  ![r].refs = GetSteps(T3),
                                  ![r].seen = [i \in 1..Len(T3.steps) |->
                                                  T3.objects[T3.steps[i]]]]
    /\ UNCHANGED <<clock, serverVars, clientVars, snapshots, invocations, outbox>>

\* lines 393-398: agentExecutor.invoke() rejects
AgentFails(r) ==
    /\ runs[r].pc = "invoking"
    /\ SetTracker(AddStep(Tracker, "error",
                          Str(<<"Agent execution failed: ">> \o LlmFailure),
                          Actor("Agent"), Actor("User"),
                          Obj(<<KV("error", Str(LlmFailure))>>), clock, Owner(r, 0)))
    /\ runs' = [runs EXCEPT ![r].pc = "threw"]
    /\ UNCHANGED <<clock, serverVars, clientVars, snapshots, invocations, outbox>>

(***************************************************************************)
(* Specifications.                                                         *)
(***************************************************************************)
InitWith(url) ==
    /\ clock = InitialNow
    /\ tools = RegisteredTools
    /\ activeSessions = <<>>
    /\ remindersDb = <<>>
    /\ http = <<>>
    /\ responses = <<>>
    /\ serverUrl = url
    /\ sessionId = NewSessionId(InitialNow, "k3x")
    /\ capabilities = Null
    /\ fetches = 0
    /\ calls = <<>>
    /\ objects = <<>>
    /\ steps = <<>>
    /\ stepCounter = 0
    /\ snapshots = <<>>
    /\ runs = <<>>
    /\ invocations = <<>>
    /\ outbox = <<>>

ClientStart ==
    /\ CanStart
    /\ \/ Initialize
       \/ DiscoverTools
       \/ \E in \in ToolInputs : CallTool(in[1], in[2])

ServerStep ==
    \E n \in 1..Len(http) :
        \/ ServeInitialize(n)
        \/ ServeToolsList(n)
        \/ \E frameworkAnswers \in BOOLEAN : ToolsCallDispatch(n, frameworkAnswers)
        \/ \E rnd \in RandomSuffixes, smtpOk \in BOOLEAN : ToolsCallComplete(n, rnd, smtpOk)

\* the MCPClient and other senders against the repository's server
Init == InitWith("repo")

Next ==
    \/ Tick
    \/ ClientStart
    \/ ServerStep
    \/ \E i \in 1..Len(calls) : FetchRejects(i) \/ FetchResolves(i)

Spec == Init /\ [][Next]_vars

\* the repository's server against senders of any request
NextServer ==
    \/ Tick
    \/ \E r \in RawRequests : RawRequest(r)
    \/ ServerStep
    \/ \E n \in 1..Len(http) : ServeSessions(n)

SpecServer == Init /\ [][NextServer]_vars

\* the repository's server against an initialized and an uninitialized session
NextSessions ==
    \/ \E r \in SessionRequests : SessionRequest(r)
    \/ ServerStep

SpecSessions == Init /\ [][NextSessions]_vars

\* one MCPClient with several callTool() requests in flight
InFlightInputs == {in \in ToolInputs : in[2] = Obj(<<>>)}
                  \cup {in \in ToolInputs : in[1] = "add_reminder"
                                             /\ Truthy(Get(in[2], "task"))}

NextInFlight ==
    \/ Tick
    \/ Len(calls) < MaxInFlight /\ \E in \in InFlightInputs : CallTool(in[1], in[2])
    \/ ServerStep
    \/ \E i \in 1..Len(calls) : FetchResolves(i)

SpecInFlight == Init /\ [][NextInFlight]_vars

\* one ExecutionTracker under any sequence of calls
NextTracker ==
    \/ \E type \in StepTypes : TrackerAddStep(type)
    \/ \E id \in SomeIds, duration \in Durations : TrackerUpdateStepDuration(id, duration)
    \/ TrackerGetSteps
    \/ TrackerClear

SpecTracker == Init /\ [][NextTracker]_vars

\* requests to POST /agent/execute, overlapping or not
NextAgent ==
    \/ Tick
    \/ \E query \in Queries : ExecuteAgentQuery(query)
    \/ \E r \in 1..Len(runs), in \in AgentToolInputs : AgentCallsTool(r, in[1], in[2])
    \/ \E k \in 1..Len(invocations), reachable \in BOOLEAN, rnd \in RandomSuffixes,
          smtpOk \in BOOLEAN : ToolSettles(k, reachable, rnd, smtpOk)
    \/ \E r \in 1..Len(runs) : AgentAnswers(r) \/ AgentFails(r)

SpecAgent == Init /\ [][NextAgent]_vars

\* the tool endpoints and the MCP tools/call endpoint side by side
NextTools ==
    \/ Tick
    \/ \E r \in ToolRequests : ToolRequest(r)
    \/ \E n \in 1..Len(http) :
          \/ ServeListReminders(n)
          \/ \E rnd \in RandomSuffixes : ServeAddReminder(n, rnd)
          \/ \E rnd \in RandomSuffixes : ServeSendEmailReminder(n, rnd)
          \/ \E rnd \in RandomSuffixes, smtpOk \in BOOLEAN :
                EmailServiceAnswers(n, rnd, smtpOk)
          \/ \E frameworkAnswers \in BOOLEAN : ToolsCallDispatch(n, frameworkAnswers)
          \/ \E rnd \in RandomSuffixes, smtpOk \in BOOLEAN : ToolsCallComplete(n, rnd, smtpOk)

SpecTools == Init /\ [][NextTools]_vars

(***************************************************************************)
(* mcp_client_http.ts: POST /send-reminder with the mail it hands to       *)
(* nodemailer.  calendarOk: generateCalendarInvite returned (it throws     *)
(* when the ics library rejects the event); smtpOk: transporter.sendMail   *)
(* succeeded.                                                              *)
(***************************************************************************)
IncludeCalendarInvite(body) ==
    IF Get(body, "includeCalendarInvite").t = "undef" THEN Bool(TRUE)
    ELSE Get(body, "includeCalendarInvite")

\* the attachments of mailOptions: the invite is pushed only when it was asked
\* for and generateCalendarInvite returned
MailAttachments(body, calendarOk) ==
    IF Truthy(IncludeCalendarInvite(body)) /\ calendarOk
    THEN <<"text/calendar">> ELSE <<>>

SendReminderBodies ==
    { Obj(<<KV("to", SomeEmail), KV("reminderText", QuotedTask),
            KV("reminderTime", PlainTime), KV("includeCalendarInvite", flag)>>) :
        flag \in {Undef, Bool(TRUE), Bool(FALSE)} }
    \cup { Obj(<<KV("reminderText", QuotedTask), KV("reminderTime", PlainTime)>>) }

SendReminderRequest(body) ==
    /\ Len(http) < MaxMailRaw
    /\ http' = Append(http, NewHttp("/send-reminder", <<>>, body, "raw"))
    /\ UNCHANGED <<clock, tools, activeSessions, remindersDb, responses,
                   clientVars, agentVars, outbox>>

SendReminder(n, calendarOk, smtpOk) ==
    /\ http[n].ep = "/send-reminder" /\ http[n].st = "sent"
    /\ LET body == http[n].body
           reply == SendReminderService(body, smtpOk)
       IN /\ responses' = Emit(n, "plain", reply)
          /\ outbox' = IF reply.status = 200
                       THEN Append(outbox,
                                [req |-> n, to |-> Get(body, "to"),
                                 attachments |-> MailAttachments(body, calendarOk)])
                       ELSE outbox
    /\ http' = SetSt(n, "done")
    /\ UNCHANGED <<clock, tools, activeSessions, remindersDb, clientVars, agentVars>>

NextEmail ==
    \/ Tick
    \/ \E body \in SendReminderBodies : SendReminderRequest(body)
    \/ \E n \in 1..Len(http), calendarOk \in BOOLEAN, smtpOk \in BOOLEAN :
          SendReminder(n, calendarOk, smtpOk)

SpecEmail == Init /\ [][NextEmail]_vars

\* the mail sent for request n
MailOf(n) == CHOOSE m \in {outbox[j] : j \in 1..Len(outbox)} : m.req = n

\* C40: in every successful /send-reminder response, reminder.calendarAttached
\* is true exactly when the mail that was sent carries the calendar invite as
\* an attachment; it is false when the invite could not be generated.
C40_CalendarAttachedIffAttachment ==
    \A j \in 1..Len(responses) :
        (http[responses[j].req].ep = "/send-reminder" /\ responses[j].status = 200)
        => ((Get(Get(responses[j].body, "reminder"), "calendarAttached") = Bool(TRUE))
            <=> (MailOf(responses[j].req).attachments # <<>>))

\* requests to POST /agent/execute, one at a time
RunActive(r) == runs[r].pc \in {"invoking", "tool"}

NextSolo ==
    \/ Tick
    \/ \E query \in Queries :
          (\A r \in 1..Len(runs) : ~RunActive(r)) /\ ExecuteAgentQuery(query)
    \/ \E r \in 1..Len(runs), in \in AgentToolInputs : AgentCallsTool(r, in[1], in[2])
    \/ \E k \in 1..Len(invocations), reachable \in BOOLEAN, rnd \in RandomSuffixes,
          smtpOk \in BOOLEAN : ToolSettles(k, reachable, rnd, smtpOk)
    \/ \E r \in 1..Len(runs) : AgentAnswers(r) \/ AgentFails(r)

SpecSolo == Init /\ [][NextSolo]_vars

\* the MCPClient against any server
InitAny == InitWith("other")

NextAny ==
    \/ Tick
    \/ ClientStart
    \/ \E i \in 1..Len(calls) :
          \/ FetchRejects(i)
          \/ \E reply \in StubReplies : StubResolves(i, reply)

SpecAny == InitAny /\ [][NextAny]_vars

\* the CLI client against any server
NextCli ==
    \/ Tick
    \/ CliMain
    \/ CliDiscoverTools
    \/ \E in \in CliToolInputs : CliLine(in[1], in[2])
    \/ \E i \in 1..Len(calls) :
          \/ FetchRejects(i)
          \/ \E reply \in StubReplies : StubResolves(i, reply)

SpecCli == InitAny /\ [][NextCli]_vars

(***************************************************************************)
(* Properties.                                                             *)
(***************************************************************************)
Populated(body, k) == Get(body, k).t \notin {"undef", "null"}

HandlerResponses == {j \in 1..Len(responses) : responses[j].by = "handler"}

IsToolsCall(n) == http[n].ep = "/mcp/tools/call"

NameRegistered(name) ==
    \E j \in 1..Len(tools.a) : Get(tools.a[j], "name") = name

\* a tools/call request that carries params whose name is not in the registry
UnknownToolCall(n) ==
    /\ IsToolsCall(n)
    /\ Derefable(Get(http[n].body, "params"))
    /\ ~NameRegistered(Get(Get(http[n].body, "params"), "name"))

\* a tools/call request whose tool implementation failed
FailedToolCall(n) == IsToolsCall(n) /\ http[n].outcome = "threw"

Contains(seq, sub) ==
    \E k \in 0..(Len(seq) - Len(sub)) : SubSeq(seq, k + 1, k + Len(sub)) = sub

\* C1: every envelope the MCP handlers emit has exactly one of result and
\* error populated
C1_ExactlyOneOfResultAndError ==
    \A j \in HandlerResponses :
        \/ Populated(responses[j].body, "result") /\ ~Populated(responses[j].body, "error")
        \/ ~Populated(responses[j].body, "result") /\ Populated(responses[j].body, "error")

\* a success envelope and an error envelope have both been emitted
C1_Witness ==
    /\ \E j \in HandlerResponses : Populated(responses[j].body, "result")
    /\ \E j \in HandlerResponses : Populated(responses[j].body, "error")

\* C2: while capabilities is null, starting discoverTools() or callTool() fails
\* locally and sends no network request
C2_UninitializedCallsStayLocal ==
    [][(/\ ~Truthy(capabilities)
        /\ Len(calls') = Len(calls) + 1
        /\ calls'[Len(calls')].op \in {"discoverTools", "callTool"})
       => (/\ fetches' = fetches
           /\ calls'[Len(calls')].st = "raised")]_vars

\* C3: a request whose handler has come to its end has got exactly one
\* response, and no request ever has two
C3_ExactlyOneResponse ==
    \A n \in 1..Len(http) :
        /\ Cardinality(ResponsesTo(n)) <= 1
        /\ http[n].st \in {"done", "escaped"} => Cardinality(ResponsesTo(n)) = 1

\* C4: once initialize() has succeeded and capabilities is set, no step makes
\* the session uninitialized again
SucceededInitialize ==
    \E i \in 1..Len(calls) : calls[i].op = "initialize" /\ calls[i].st = "returned"

C4_NeverUninitializedAgain ==
    [][(SucceededInitialize /\ Truthy(capabilities)) => Truthy(capabilities')]_vars

\* C5: when initialize() raises on an uninitialized client, the error is the
\* wrapped one and the session is still uninitialized
C5_FailedInitializeLeavesUninitialized ==
    [][\A i \in 1..Len(calls) :
          (/\ calls[i].op = "initialize" /\ calls[i].st = "pending"
           /\ calls'[i].st = "raised"
           /\ ~Truthy(capabilities))
          => (/\ calls'[i].error = WrappedInitError
              /\ ~Truthy(capabilities'))]_vars

\* C6: a tools/call request that names no registered tool is answered with one
\* error envelope that echoes its id; no tool implementation runs for it, no
\* exception leaves the handler and the step that answers it leaves the store
C6_UnknownToolAnswered ==
    \A n \in 1..Len(http) :
        (UnknownToolCall(n) /\ http[n].st # "sent") =>
            /\ http[n].st = "done"
            /\ http[n].tool = "none" /\ http[n].outcome = "none"
            /\ Cardinality(ResponsesTo(n)) = 1
            /\ \A j \in ResponsesTo(n) :
                  /\ responses[j].by = "handler"
                  /\ Populated(responses[j].body, "error")
                  /\ ~Populated(responses[j].body, "result")
                  /\ Get(responses[j].body, "id") = Get(http[n].body, "id")

C6_UnknownToolLeavesStore ==
    [][\A n \in 1..Len(http) :
          (UnknownToolCall(n) /\ http[n].st = "sent" /\ http'[n].st # "sent")
          => remindersDb' = remindersDb]_vars

C6_UnknownToolErrorEnvelope ==
    []C6_UnknownToolAnswered /\ C6_UnknownToolLeavesStore

\* an unknown tool has been answered while the store holds a reminder
C6_Witness ==
    /\ remindersDb # <<>>
    /\ \E n \in 1..Len(http) : UnknownToolCall(n) /\ http[n].st = "done"

\* C7: the error code answered for an unknown tool differs from the error code
\* answered for a failed tool implementation
C7_DistinctErrorCodes ==
    \A n, m \in 1..Len(http) :
        (UnknownToolCall(n) /\ FailedToolCall(m)) =>
            \A j \in ResponsesTo(n), k \in ResponsesTo(m) :
                Get(Get(responses[j].body, "error"), "code")
                    # Get(Get(responses[k].body, "error"), "code")

\* C8: the tools/call requests of the client carry pairwise distinct ids, none
\* of them the id of initialize (1) or tools/list (2)
ToolCalls == {i \in 1..Len(calls) : calls[i].op = "callTool"}

C8_DistinctCallIds ==
    /\ \A i, k \in ToolCalls :
          i # k => Get(calls[i].request, "id") # Get(calls[k].request, "id")
    /\ \A i \in ToolCalls :
          Get(calls[i].request, "id") \notin {Get(InitializeRequest, "id"),
                                              Get(ToolsListRequest, "id")}

\* C9: when callTool() got an error envelope from the server, the error it
\* raises carries the envelope's code and message
C9_ErrorCarriesEnvelope ==
    \A i \in ToolCalls :
        (calls[i].fetched = "resolved" /\ calls[i].req # 0) =>
            \A j \in ResponsesTo(calls[i].req) :
                Populated(responses[j].body, "error") =>
                    LET error == Get(responses[j].body, "error")
                    IN /\ calls[i].st = "raised"
                       /\ Contains(calls[i].error.message, ToStr(Get(error, "code")))
                       /\ Contains(calls[i].error.message, ToStr(Get(error, "message")))

\* C10: a callTool() that succeeds returns one text content block whose text is
\* the serialization of the tool implementation's result and parses back to it
ContentBlock(text) ==
    Obj(<<KV("content", Arr(<<Obj(<<KV("type", Str(<<"text">>)),
                                    KV("text", text)>>)>>))>>)

C10_ResultRoundTrip ==
    \A i \in ToolCalls :
        (calls[i].st = "returned" /\ calls[i].req # 0) =>
            LET r == http[calls[i].req].result
            IN /\ http[calls[i].req].outcome = "returned"
               /\ calls[i].ret = ContentBlock(Str(Serialize(r)))
               /\ JSONparse(Get(calls[i].ret.o[1].v.a[1], "text").s) = r

\* add_reminder has returned through callTool() with a task that needs escaping
C10_Witness ==
    \E i \in ToolCalls :
        /\ calls[i].st = "returned" /\ calls[i].req # 0
        /\ http[calls[i].req].tool = "add_reminder"
        /\ Get(Get(http[calls[i].req].result, "reminder"), "task") = QuotedTask

\* C11: a failed tool implementation is answered with one error envelope that
\* carries code -32603 and the request's id; the failure leaves no exception
\* behind, so requests that come later are served (C11_Witness)
C11_HandlerFailureCaught ==
    \A n \in 1..Len(http) :
        FailedToolCall(n) =>
            /\ http[n].st = "done"
            /\ Cardinality(ResponsesTo(n)) = 1
            /\ \A j \in ResponsesTo(n) :
                  /\ responses[j].by = "handler"
                  /\ ~Populated(responses[j].body, "result")
                  /\ Get(Get(responses[j].body, "error"), "code") = Num(InternalErrorCode)
                  /\ Get(responses[j].body, "id") = Get(http[n].body, "id")

\* a request that arrived after a failed tool call has been answered with a result
C11_Witness ==
    \E n, m \in 1..Len(http) :
        /\ FailedToolCall(n) /\ n < m
        /\ \E j \in ResponsesTo(n), k \in ResponsesTo(m) :
              j < k /\ Populated(responses[k].body, "result")

\* C12: the message of the error envelope answered for a failed tool
\* implementation is one fixed text, the same for every failure
C12_GenericFailureMessage ==
    \A n, m \in 1..Len(http) :
        (FailedToolCall(n) /\ FailedToolCall(m)) =>
            \A j \in ResponsesTo(n), k \in ResponsesTo(m) :
                Get(Get(responses[j].body, "error"), "message")
                    = Get(Get(responses[k].body, "error"), "message")

\* C13: every envelope of the initialize, tools/list and tools/call handlers
\* carries the id of the request it answers
C13_IdEchoed ==
    \A j \in HandlerResponses :
        /\ Populated(http[responses[j].req].body, "id")
        /\ Get(responses[j].body, "id") = Get(http[responses[j].req].body, "id")

\* a result envelope and an error envelope answer requests with different ids
C13_Witness ==
    \E j, k \in HandlerResponses :
        /\ http[responses[j].req].ep = "/mcp/initialize"
        /\ Populated(responses[k].body, "error")
        /\ Get(responses[j].body, "id") # Get(responses[k].body, "id")

\* C14: two tools/list or two tools/call requests that ask the same thing get
\* the same answer, whoever sends them and whatever sessions are recorded (no
\* request of SpecSessions changes the reminder store)
SameAsk(n, m) ==
    /\ http[n].ep = http[m].ep
    /\ http[n].ep \in {"/mcp/tools/list", "/mcp/tools/call"}
    /\ Get(http[n].body, "method") = Get(http[m].body, "method")
    /\ Get(http[n].body, "params") = Get(http[m].body, "params")

C14_AnswerIgnoresSessions ==
    \A n, m \in 1..Len(http) :
        SameAsk(n, m) =>
            \A j \in ResponsesTo(n), k \in ResponsesTo(m) :
                /\ responses[j].status = responses[k].status
                /\ Get(responses[j].body, "result") = Get(responses[k].body, "result")
                /\ Get(responses[j].body, "error") = Get(responses[k].body, "error")

\* the same question has been answered for a session that had sent initialize
\* before and for a session that never did
C14_Witness ==
    \E n, m, i \in 1..Len(http) :
        /\ SameAsk(n, m)
        /\ http[i].ep = "/mcp/initialize" /\ http[i].sid = http[n].sid
        /\ ~MapHas(activeSessions, http[m].sid)
        /\ \E j \in ResponsesTo(n), k \in ResponsesTo(m), l \in ResponsesTo(i) : l < j

\* C15: the tools in every initialize and tools/list answer are add_reminder,
\* send_email_reminder and list_reminders, each once
ToolNames(tls) == [x \in 1..Len(tls.a) |-> Get(tls.a[x], "name")]

AdvertisingResponses ==
    {j \in HandlerResponses :
        http[responses[j].req].ep \in {"/mcp/initialize", "/mcp/tools/list"}}

AdvertisedTools(j) == Get(Get(responses[j].body, "result"), "tools")

C15_ExactlyTheRegisteredNames ==
    \A j \in AdvertisingResponses :
        LET names == ToolNames(AdvertisedTools(j))
        IN /\ Len(names) = 3
           /\ {names[x] : x \in 1..Len(names)}
                 = {Str(<<"add_reminder">>), Str(<<"send_email_reminder">>),
                    Str(<<"list_reminders">>)}

\* initialize and then tools/list have been answered
C15_Witness ==
    \E j, k \in AdvertisingResponses :
        /\ j < k
        /\ http[responses[j].req].ep = "/mcp/initialize"
        /\ http[responses[k].req].ep = "/mcp/tools/list"

\* C16: no handler changes the registry, and the tools of any tools/list
\* answer equal the tools of any initialize answer, earlier or later
C16_AdvertisedToolsAgree ==
    \A j, k \in AdvertisingResponses : AdvertisedTools(j) = AdvertisedTools(k)

C16_RegistryImmutable ==
    []C16_AdvertisedToolsAgree /\ [][tools' = tools]_vars

\* tools/list was answered before an initialize was, and the registry is
\* still the one registerTools() built
C16_Witness ==
    /\ \E j, k \in AdvertisingResponses :
          /\ j < k
          /\ http[responses[j].req].ep = "/mcp/tools/list"
          /\ http[responses[k].req].ep = "/mcp/initialize"
    /\ tools = RegisteredTools

\* C17: a discoverTools() or callTool() that fails, locally or when its
\* request settles, leaves sessionId, serverUrl and capabilities as they were
FailsNow(i) ==
    /\ calls'[i].op \in {"discoverTools", "callTool"}
    /\ calls'[i].st = "raised"
    /\ i \in 1..Len(calls) => calls[i].st = "pending"

C17_FailedCallLeavesSession ==
    [][\A i \in 1..Len(calls') :
          FailsNow(i) => /\ sessionId' = sessionId
                         /\ serverUrl' = serverUrl
                         /\ capabilities' = capabilities]_vars

\* a callTool() whose request failed has raised, and a callTool() started
\* after it has returned
C17_Witness ==
    \E i, k \in ToolCalls :
        /\ i < k
        /\ calls[i].st = "raised" /\ calls[i].fetched # "none"
        /\ calls[k].st = "returned"

\* C18: every invocation that did not fail locally has sent one request, and
\* no other request was sent
SentCalls ==
    {i \in 1..Len(calls) : ~(calls[i].st = "raised" /\ calls[i].fetched = "none")}

C18_OneRequestPerCall == fetches = Cardinality(SentCalls)

\* a call whose request failed in transport and one that got an HTTP error
\* have both raised
C18_Witness ==
    \E i, k \in 1..Len(calls) :
        /\ calls[i].st = "raised" /\ calls[i].fetched = "rejected"
        /\ calls[k].st = "raised" /\ calls[k].fetched = "resolved"

\* C19: a tools/call request of a registered tool has no response while its
\* tool implementation is running; a response is there only once the
\* implementation has returned or failed
RegisteredToolCall(n) ==
    /\ IsToolsCall(n)
    /\ Derefable(Get(http[n].body, "params"))
    /\ NameRegistered(Get(Get(http[n].body, "params"), "name"))

C19_ResponseAfterCompletion ==
    \A n \in 1..Len(http) :
        RegisteredToolCall(n) =>
            /\ http[n].st = "running" => ResponsesTo(n) = {}
            /\ ResponsesTo(n) # {} => /\ http[n].st = "done"
                                      /\ http[n].outcome \in {"returned", "threw"}

\* a tool implementation is still running, unanswered, while a tool call that
\* came later has completed and has its answer
C19_Witness ==
    \E n, m \in 1..Len(http) :
        /\ RegisteredToolCall(n) /\ http[n].st = "running"
        /\ n < m /\ ResponsesTo(m) # {}
        /\ RegisteredToolCall(m) /\ http[m].outcome = "returned"

\* C20: a callTool() whose fetch resolved got the one response the server
\* produced for its own request, which carries its own tool name and
\* arguments; and once it has returned or raised it never does so again
C20_OwnResponse ==
    \A i \in ToolCalls :
        calls[i].fetched = "resolved" =>
            LET n == calls[i].req
            IN /\ http[n].body = Wire(calls[i].request)
               /\ Cardinality(ResponsesTo(n)) = 1
               /\ \A j \in ResponsesTo(n) :
                     IF calls[i].st = "returned"
                     THEN /\ calls[i].ret = Get(responses[j].body, "result")
                          /\ http[n].tool = Get(Get(calls[i].request, "params"), "name").s[1]
                          /\ calls[i].ret = ContentBlock(Str(Serialize(http[n].result)))
                     ELSE /\ calls[i].st = "raised"
                          /\ Populated(responses[j].body, "error")

C20_SettledOnce ==
    [][\A i \in 1..Len(calls) :
          calls[i].st # "pending" => calls'[i] = calls[i]]_vars

C20_NoCrossDelivery == []C20_OwnResponse /\ C20_SettledOnce

\* two calls of different tools were in flight together, the server answered
\* the later one first, and both have returned
C20_Witness ==
    \E i, k \in ToolCalls :
        /\ i < k
        /\ calls[i].st = "returned" /\ calls[k].st = "returned"
        /\ http[calls[i].req].tool # http[calls[k].req].tool
        /\ \E j \in ResponsesTo(calls[i].req), l \in ResponsesTo(calls[k].req) : l < j

\* C21: the i-th step of the tracker's sequence has id 'step-i', and addStep
\* appends one step at the end and leaves the earlier ones as they were
C21_IdsFollowPositions ==
    /\ stepCounter = Len(steps)
    /\ \A i \in 1..Len(steps) : objects[steps[i]].id = Str(StepId(i))
    /\ \A i, k \in 1..Len(steps) : i # k => objects[steps[i]].id # objects[steps[k]].id

C21_AddStepAppends ==
    [][Len(objects') > Len(objects) =>
          /\ steps' = Append(steps, Len(objects'))
          /\ \A r \in 1..Len(objects) : objects'[r] = objects[r]]_vars

C21_StepIdsInOrder == []C21_IdsFollowPositions /\ C21_AddStepAppends

\* two steps are in the sequence, one of them with a duration, and a
\* snapshot has been taken
C21_Witness ==
    /\ Len(steps) = 2
    /\ \E i \in 1..2 : objects[steps[i]].duration # Undef
    /\ snapshots # <<>>

\* C22: a clear() leaves an empty sequence and a counter of 0, and the addStep
\* that follows makes 'step-1' the only step of the sequence
C22_ClearResets ==
    [][steps # <<>> /\ steps' = <<>> => stepCounter' = 0]_vars

C22_FirstStepAfterClear ==
    [][steps = <<>> /\ Len(objects') > Len(objects) =>
          /\ Len(steps') = 1
          /\ objects'[steps'[1]].id = Str(StepId(1))]_vars

C22_ClearStartsOver == C22_ClearResets /\ C22_FirstStepAfterClear

\* a step was recorded and cleared, and the step recorded next is 'step-1'
C22_Witness ==
    /\ Len(objects) = 2 /\ steps = <<2>>
    /\ objects[2].id = Str(StepId(1))

C24_SnapshotImmutable ==
    \A k \in 1..Len(snapshots) : Deref(snapshots[k].refs) = snapshots[k].seen

\* the steps invocation k has recorded, in the order of recording
InvSteps(k) == SelectSeq(objects, LAMBDA o : o.by.inv = k)

Finished(k) == invocations[k].st = "returned"

\* C25: the steps executeAgentQuery returns for a run are exactly the steps
\* that run recorded, none of another run and none of its own missing, also
\* when runs overlap
C25_ReturnedStepsAreTheRuns ==
    \A r \in 1..Len(runs) :
        runs[r].pc = "returned" =>
            /\ \A i \in 1..Len(runs[r].seen) : runs[r].seen[i].by.run = r
            /\ \A j \in 1..Len(objects) :
                   objects[j].by.run = r => \E i \in 1..Len(runs[r].refs) :
                                                runs[r].refs[i] = j

\* C26: a successful tool invocation has recorded exactly six steps, three
\* tool_call steps and then three tool_response steps
C26_SixStepsPerSuccess ==
    \A k \in 1..Len(invocations) :
        (Finished(k) /\ invocations[k].ok) =>
            [i \in 1..Len(InvSteps(k)) |-> InvSteps(k)[i].type]
                = <<"tool_call", "tool_call", "tool_call",
                    "tool_response", "tool_response", "tool_response">>

\* C27: once the request of a tool invocation has settled, a tool_call step of
\* the invocation has its duration populated
C27_CallStepHasDuration ==
    \A k \in 1..Len(invocations) :
        Finished(k) =>
            \E i \in 1..Len(InvSteps(k)) :
                /\ InvSteps(k)[i].type = "tool_call"
                /\ InvSteps(k)[i].duration.t # "undef"

\* C28: a failed tool invocation has recorded an error step MCPServer ->
\* MCPClient and an error step MCPClient -> Agent, and no tool_response step
\* after its first error step
C28_FailureReportedAlongThePath ==
    \A k \in 1..Len(invocations) :
        (Finished(k) /\ ~invocations[k].ok) =>
            LET s == InvSteps(k)
            IN /\ \E i \in 1..Len(s) : /\ s[i].type = "error"
                                       /\ s[i].actor = Actor("MCPServer")
                                       /\ s[i].target = Actor("MCPClient")
               /\ \E i \in 1..Len(s) : /\ s[i].type = "error"
                                       /\ s[i].actor = Actor("MCPClient")
                                       /\ s[i].target = Actor("Agent")
               /\ \A i, j \in 1..Len(s) :
                      (i < j /\ s[i].type = "error") => s[j].type # "tool_response"

\* C29: in the steps of a finished tool invocation, every tool_call step from
\* A to B is followed by a tool_response or error step from B to A
C29_EveryCallEdgeReturns ==
    \A k \in 1..Len(invocations) :
        Finished(k) =>
            LET s == InvSteps(k)
            IN \A i \in 1..Len(s) :
                   s[i].type = "tool_call" =>
                       \E j \in (i + 1)..Len(s) :
                           /\ s[j].type \in {"tool_response", "error"}
                           /\ s[j].actor = s[i].target
                           /\ s[j].target = s[i].actor

\* the session ids the server has recorded
SessionKeys(m) == {m[j].k : j \in 1..Len(m)}

\* the session ids whose initialize request the server has handled
InitializedIds ==
    {http[n].sid : n \in {i \in 1..Len(http) : /\ http[i].ep = "/mcp/initialize"
                                               /\ http[i].st = "done"}}

\* the session ids a GET /mcp/sessions response lists
ReportedIds(j) ==
    {Get(responses[j].body, "sessions").a[i].o[1].v.s :
        i \in 1..Len(Get(responses[j].body, "sessions").a)}

C30_RecordedAreTheInitialized ==
    /\ SessionKeys(activeSessions) = InitializedIds
    /\ Cardinality(SessionKeys(activeSessions)) = Len(activeSessions)
    /\ \A j \in 1..Len(responses) :
           http[responses[j].req].ep = "/mcp/sessions" =>
               /\ ReportedIds(j) \subseteq InitializedIds
               /\ Get(responses[j].body, "activeSessions")
                      = Num(Cardinality(ReportedIds(j)))

C30_NeverRemoved ==
    [][SessionKeys(activeSessions) \subseteq SessionKeys(activeSessions')]_vars

\* C30: the recorded sessions are exactly the session ids whose initialize
\* the server has handled, one entry per id however often it initializes,
\* and no step removes a recorded session
C30_SessionsAreTheInitialized == []C30_RecordedAreTheInitialized /\ C30_NeverRemoved

\* a session id has initialized twice and is recorded once
C30_Witness ==
    /\ \E a, b \in 1..Len(http) :
           /\ a < b
           /\ http[a].ep = "/mcp/initialize" /\ http[a].st = "done"
           /\ http[b].ep = "/mcp/initialize" /\ http[b].st = "done"
           /\ http[a].sid = http[b].sid
    /\ Len(activeSessions) = 1

\* the tool list a reply carries as result.tools, if it carries one
CarriesToolList(reply) ==
    /\ StatusOk(reply.status)
    /\ Get(Get(reply.body, "result"), "tools").t = "arr"

\* C31: a discoverTools() of an initialized client that returns, returns the
\* tool list of the tools/list response it got, or the snapshot stored at
\* initialize when the response carries no tool list; and no discoverTools()
\* changes the stored snapshot
C31_DiscoverReturnsServersList ==
    [][/\ \A i \in 1..Len(calls) :
             (/\ calls[i].op = "discoverTools" /\ calls[i].st = "pending"
              /\ calls'[i].st # "pending") => capabilities' = capabilities
       /\ Len(calls') > Len(calls) /\ calls'[Len(calls')].op = "discoverTools"
              => capabilities' = capabilities
       /\ \A i \in 1..Len(calls), reply \in StubReplies :
             (/\ Pending(i) /\ calls[i].op = "discoverTools"
              /\ Settle(i, Resolved(reply))
              /\ calls'[i].st = "returned")
             => calls'[i].ret = IF CarriesToolList(reply)
                                THEN Get(Get(reply.body, "result"), "tools")
                                ELSE Get(capabilities, "tools")]_vars

\* initialize() has returned and a later discoverTools() has returned
C31_Witness ==
    \E i, k \in 1..Len(calls) :
        /\ i < k
        /\ calls[i].op = "initialize" /\ calls[i].st = "returned"
        /\ calls[k].op = "discoverTools" /\ calls[k].st = "returned"

\* the store after the direct endpoint /tools/<tool> has handled a request
\* whose body is args
DirectStore(tool, args, db, now, rnd, smtpOk) ==
    CASE tool = "add_reminder" -> AddReminderEndpoint(args, db, now, rnd).db
      [] tool = "send_email_reminder" ->
             SendEmailReminderEndpoint(args, db, now, rnd, smtpOk).db
      [] tool = "list_reminders" -> ListRemindersEndpoint(db).db

\* the tool and the arguments a request asks for, on either path
AskedTool(n) ==
    IF IsToolsCall(n)
    THEN ToolsCallSwitch(Get(Get(http[n].body, "params"), "name"))
    ELSE CHOOSE name \in {"add_reminder", "send_email_reminder", "list_reminders"} :
             http[n].ep = ToolEndpoint(name)

AskedArguments(n) ==
    IF IsToolsCall(n) THEN Get(Get(http[n].body, "params"), "arguments")
    ELSE http[n].body

\* C32: the step in which a tool invoked through /mcp/tools/call comes to its
\* end leaves the reminder store as the direct endpoint /tools/<name> leaves
\* it for the same arguments, store, clock and email service outcome; and the
\* steps of the direct endpoints do as well
C32_SameStoreEitherPath ==
    [][\A n \in 1..Len(http) :
          (/\ http[n].st # "done" /\ http'[n].st = "done"
           /\ AskedTool(n) # "default")
          => \E rnd \in RandomSuffixes, smtpOk \in BOOLEAN :
                /\ http'[n].outcome = "threw" => ~smtpOk \/ AskedTool(n) # "send_email_reminder"
                /\ remindersDb' = DirectStore(AskedTool(n), AskedArguments(n),
                                              remindersDb, clock, rnd, smtpOk)]_vars

\* add_reminder has been invoked with the same arguments through the MCP
\* endpoint and through the direct endpoint, and the store holds both reminders
C32_Witness ==
    /\ \E m, n \in 1..Len(http) :
           /\ IsToolsCall(m) /\ ~IsToolsCall(n)
           /\ AskedTool(m) = "add_reminder" /\ AskedTool(n) = "add_reminder"
           /\ AskedArguments(m) = AskedArguments(n)
           /\ http[m].st = "done" /\ http[n].st = "done"
    /\ Len(remindersDb) = 2

\* initialize() or discoverTools() of the CLI client has raised
HandshakeFailed ==
    \E i \in 1..Len(calls) :
        calls[i].op \in {"initialize", "discoverTools"} /\ calls[i].st = "raised"

C33_ToolCallsFollowHandshake ==
    /\ \A k \in 1..Len(calls) :
           calls[k].op = "callTool" =>
               /\ k > 2
               /\ calls[1].op = "initialize" /\ calls[1].st = "returned"
               /\ calls[1].fetched = "resolved"
               /\ calls[2].op = "discoverTools" /\ calls[2].st = "returned"
               /\ calls[2].fetched = "resolved"
    /\ Len(calls) >= 2 => calls[1].st = "returned"
    /\ HandshakeFailed => /\ \A k \in 1..Len(calls) : calls[k].op # "callTool"
                          /\ fetches = Len(calls)

C33_NothingSentAfterFailure ==
    [][HandshakeFailed => (fetches' = fetches /\ Len(calls') = Len(calls))]_vars

\* C33: the CLI client sends a tools/call request only after its initialize
\* request and then its tools/list request have succeeded; once either has
\* failed it sends nothing more
C33_HandshakeBeforeToolCalls ==
    []C33_ToolCallsFollowHandshake /\ C33_NothingSentAfterFailure

\* the CLI client has sent a tools/call request, and it has been answered
C33_Witness ==
    \E k \in 1..Len(calls) : calls[k].op = "callTool" /\ calls[k].st = "returned"

\* the steps run r has recorded, in the order of recording
RunSteps(r) == SelectSeq(objects, LAMBDA o : o.by.run = r)

LastOf(seq) == seq[Len(seq)]

\* C34: with runs one at a time, the first step a run records is a 'start'
\* step with id 'step-1'; a run that returned returned a trace from its start
\* step to an 'end' step with nothing recorded after it; a run that failed
\* recorded an 'error' step last and no 'end' step, and raised
C34_RunFromStartToEnd ==
    \A r \in 1..Len(runs) :
        /\ RunSteps(r)[1].type = "start"
        /\ RunSteps(r)[1].id = Str(<<"step-", "1">>)
        /\ runs[r].pc = "returned" =>
               /\ runs[r].seen[1] = RunSteps(r)[1]
               /\ LastOf(runs[r].seen).type = "end"
               /\ LastOf(RunSteps(r)).type = "end"
               /\ \A i \in 1..(Len(runs[r].seen) - 1) : runs[r].seen[i].type # "end"
        /\ runs[r].pc = "threw" =>
               /\ LastOf(RunSteps(r)).type = "error"
               /\ \A i \in 1..Len(RunSteps(r)) : RunSteps(r)[i].type # "end"
        /\ (\E i \in 1..Len(RunSteps(r)) : RunSteps(r)[i].type = "end")
               => runs[r].pc = "returned"

\* a run has failed and a run started after it has returned
C34_Witness ==
    \E q, r \in 1..Len(runs) :
        q < r /\ runs[q].pc = "threw" /\ runs[r].pc = "returned"

\* C35: when the agent invocation of run r completes, the duration recorded
\* goes to the 'Analyzing query and planning actions...' step that run r
\* created, and to no step of another run
C35_DurationOnOwnStep ==
    [][\A r \in 1..Len(runs) :
          (runs[r].pc = "invoking" /\ runs'[r].pc = "returned")
          => \A j \in 1..Len(objects) :
                 objects'[j].duration # objects[j].duration
                 => /\ objects[j].by.run = r
                    /\ objects[j].content
                           = Str(<<"Analyzing query and planning actions...">>)]_vars

\* the fixed messages the tools return when their request failed
FailureMessages ==
    { Str(<<"Failed to add reminder. Please check the server.">>),
      Str(<<"Failed to list reminders. Please check the server.">>),
      Str(<<"Failed to send email reminder. Please check the email server and configuration.">>) }

FailedInvocation(k) == Finished(k) /\ ~invocations[k].ok

ErrorStepsOf(k) == {i \in 1..Len(InvSteps(k)) : InvSteps(k)[i].type = "error"}

C36_FailureStaysInTheTool ==
    /\ \A k \in 1..Len(invocations) :
           FailedInvocation(k) => /\ invocations[k].ret \in FailureMessages
                                  /\ ErrorStepsOf(k) # {}
    /\ \A r \in 1..Len(runs) :
           runs[r].pc = "returned" =>
               /\ LastOf(runs[r].seen).type = "end"
               /\ \A k \in 1..Len(invocations) :
                      (invocations[k].run = r /\ FailedInvocation(k)) =>
                          \E i \in 1..(Len(runs[r].seen) - 1) :
                              /\ runs[r].seen[i].type = "error"
                              /\ runs[r].seen[i].by.inv = k

C36_ToolNeverRaises ==
    [][\A k \in 1..Len(invocations) :
          (invocations[k].st = "awaiting" /\ invocations'[k].st # "awaiting")
          => /\ invocations'[k].st = "returned"
             /\ runs'[invocations[k].run].pc = "invoking"]_vars

Dispatched(n) ==
    /\ IsToolsCall(n)
    /\ Derefable(Get(http[n].body, "params"))
    /\ http[n].st \in {"running", "done"}

\* C37: every tool name an initialize or tools/list answer advertises has a
\* case in the tools/call switch, and a tools/call request is routed to a tool
\* implementation exactly when its name is in the registry
C37_CallableIffAdvertised ==
    /\ \A j \in AdvertisingResponses :
           LET names == ToolNames(AdvertisedTools(j))
           IN \A x \in 1..Len(names) : ToolsCallSwitch(names[x]) # "default"
    /\ \A x \in 1..Len(tools.a) :
           ToolsCallSwitch(Get(tools.a[x], "name")) # "default"
    /\ \A n \in 1..Len(http) :
           Dispatched(n) =>
               (http[n].tool # "none"
                    <=> NameRegistered(Get(Get(http[n].body, "params"), "name")))

\* a call of an advertised tool has been routed to its implementation and a
\* call of another name has been refused
C37_Witness ==
    \E m, n \in 1..Len(http) :
        /\ Dispatched(m) /\ http[m].tool # "none"
        /\ Dispatched(n) /\ http[n].tool = "none" /\ http[n].st = "done"

\* a field of a request body that is there and is a string of some length
PresentNonEmpty(v) == v.t = "str" /\ v.s # <<>>

\* request n, sent straight to a tool endpoint, is answered in this step
AnsweredNow(n, ep) ==
    /\ http[n].ep = ep
    /\ http[n].st # "done" /\ http'[n].st = "done"

IsPrefix(a, b) == Len(a) <= Len(b) /\ SubSeq(b, 1, Len(a)) = a

C39_StoredAfterEmailSent ==
    [][\A n \in 1..Len(http) :
          http[n].ep = "/tools/send_email_reminder" =>
              /\ (http[n].st = "sent" /\ http'[n].st # "sent")
                     => remindersDb' = remindersDb
              /\ AnsweredNow(n, "/tools/send_email_reminder") =>
                     LET reply == responses'[Len(responses')]
                         complete ==
                             /\ PresentNonEmpty(Get(http[n].body, "time"))
                             /\ PresentNonEmpty(Get(http[n].body, "task"))
                             /\ PresentNonEmpty(Get(http[n].body, "email"))
                     IN /\ reply.req = n
                        /\ reply.status = (IF ~complete THEN 400
                                           ELSE IF http'[n].outcome = "returned"
                                           THEN 200 ELSE 500)
                        /\ IF reply.status = 200
                           THEN /\ http[n].st = "running"
                                /\ Len(remindersDb') = Len(remindersDb) + 1
                                /\ SubSeq(remindersDb', 1, Len(remindersDb)) = remindersDb
                                /\ Get(remindersDb'[Len(remindersDb')], "email")
                                       = Get(http[n].body, "email")
                           ELSE remindersDb' = remindersDb]_vars

\* the email service has failed for one request and succeeded for another,
\* and the store holds one reminder
C39_Witness ==
    /\ \E m, n \in 1..Len(http) :
           /\ http[m].ep = "/tools/send_email_reminder" /\ http[m].outcome = "threw"
           /\ http[n].ep = "/tools/send_email_reminder" /\ http[n].outcome = "returned"
    /\ Len(remindersDb) = 1

====
